---- MODULE Spec2Model ----
(***************************************************************************)
(* Event queue -> batch accumulator -> aggregation pipeline of the         *)
(* website-analytics worker (worker/processor.ts, lib/stats.ts,            *)
(* lib/queue.ts).  One worker process, one BullMQ queue, the MongoDB       *)
(* collections events, sessions and daily_stats.                           *)
(***************************************************************************)
EXTENDS Integers, Sequences, FiniteSets, TLC

(* ---------------------------- bounds ----------------------------------- *)
\* number of events the ingestion side enqueues while the storage may fail
MaxJobs == 2
\* number of events the ingestion side enqueues while the storage is available
MaxArrivals == 7
\* times the storage becomes unavailable
MaxOutages == 1
\* hours the wall clock advances during a run
MaxTicks == 1
\* process.env.BATCH_SIZE of the modelled worker
BATCH_SIZE == 3
\* process.env.RATE_LIMIT_PER_MINUTE of the modelled ingestion API
LIMIT_PER_MINUTE == 1
\* process.env.QUEUE_CONCURRENCY of the modelled worker
QUEUE_CONCURRENCY == 3

(* ------------------------ program constants ---------------------------- *)
\* defaultJobOptions.attempts
Attempts == 5
\* defaultJobOptions.backoff.delay (ms)
BackoffDelay == 2000
Jobs == 1..MaxArrivals

(* ------------------------------ events --------------------------------- *)
\* A path is the sequence of its '.'-separated segments:
\* "/home" is <<"/home">>, "/home.html" is <<"/home", "html">>.
PHome == <<"/home">>
PAbout == <<"/about">>
PHomeHtml == <<"/home", "html">>

\* a field that a JSON body or a job's data does not have
Absent == "<absent>"

\* timestamps are hours since the epoch, all in UTC
\* the data of jobs: the fields that EventSchema keeps and the optional
\* dimensions that the worker reads
HomeView ==
  [site_id |-> "s1", event_type |-> "pageview", timestamp |-> 10, user_id |-> "A",
   path |-> PHome, device_type |-> "desktop", browser |-> "chrome", referrer |-> Absent]

AboutView ==
  [site_id |-> "s1", event_type |-> "pageview", timestamp |-> 20, user_id |-> "B",
   path |-> PAbout, device_type |-> Absent, browser |-> "chrome", referrer |-> "google"]

Events ==
  { HomeView,
    AboutView,
    [site_id |-> "s1", event_type |-> "pageview", timestamp |-> 30, user_id |-> "A",
     path |-> PHome, device_type |-> "mobile", browser |-> Absent, referrer |-> ""],
    [site_id |-> "s1", event_type |-> "pageview", timestamp |-> 10, user_id |-> "B",
     path |-> PHomeHtml, device_type |-> Absent, browser |-> Absent, referrer |-> Absent] }

Sites == { e.site_id : e \in Events }
Visitors == { e.user_id : e \in Events }
Paths == { e.path : e \in Events }

\* date.toISOString().split('T')[0]: the UTC calendar day of a timestamp
formatDate(ts) == ts \div 24

Dates == { formatDate(e.timestamp) : e \in Events }
Buckets == Sites \X Dates

\* one element of flushBuffer's statsEvents
StatsEvent(d) ==
  [site_id |-> d.site_id, date |-> formatDate(d.timestamp),
   visitor_id |-> d.user_id, path |-> d.path,
   device_type |-> d.device_type, browser |-> d.browser, referrer |-> d.referrer]

(* --------------------------- helpers ----------------------------------- *)
Range(s) == { s[i] : i \in DOMAIN s }

RECURSIVE SumOver(_, _)
\* sum of f[x] over the finite set S
SumOver(f, S) ==
  IF S = {} THEN 0
  ELSE LET x == CHOOSE y \in S : TRUE IN f[x] + SumOver(f, S \ {x})

RECURSIVE Pow2(_)
Pow2(n) == IF n = 0 THEN 1 ELSE 2 * Pow2(n - 1)

IsPrefix(p, q) == Len(p) <= Len(q) /\ SubSeq(q, 1, Len(p)) = p
IsProperPrefix(p, q) == Len(p) < Len(q) /\ IsPrefix(p, q)

(* ------------------- lib/stats.ts: aggregation ------------------------- *)
\* a key made of the site alone
BucketKey_Site(ev) == <<ev.site_id, 0>>

\* `${ev.site_id}::${ev.date}`: the date is a formatted day and holds no
\* colon, so the key names one pair of site and date
BucketKey(ev) == <<ev.site_id, ev.date>>

\* the entry opsMap.set(key, ...) creates for the first event of a bucket
NewEntry(ev) ==
  [site_id |-> ev.site_id, date |-> ev.date, total_views |-> 0,
   addToSet |-> {}, pathCounts |-> << >>,
   deviceCounts |-> << >>, browserCounts |-> << >>, referrerCounts |-> << >>]

\* entry.pathCounts.set(ev.path, (entry.pathCounts.get(ev.path) || 0) + 1)
PathCountsSet(pc, path) ==
  [p \in DOMAIN pc \cup {path} |->
     IF p = path THEN (IF p \in DOMAIN pc THEN pc[p] ELSE 0) + 1 ELSE pc[p]]

\* a guard that takes every value, also a missing one
Truthy_Any(v) == TRUE

\* if (ev.device_type): the value is a non-empty text
Truthy(v) == v # Absent /\ v # ""

\* if (v) counts.set(v, (counts.get(v) || 0) + 1), for device_type, browser
\* and referrer
DimensionSet(counts, v) == IF Truthy(v) THEN PathCountsSet(counts, v) ELSE counts

\* the loop body with pathCounts.set(ev.path, 1) in place of prev + 1
AddToEntry_NoPrev(entry, ev) ==
  [entry EXCEPT !.total_views = @ + 1,
                !.addToSet = @ \cup {ev.visitor_id},
                !.pathCounts = [p \in DOMAIN @ \cup {ev.path} |-> IF p = ev.path THEN 1 ELSE @[p]],
                !.deviceCounts = DimensionSet(@, ev.device_type),
                !.browserCounts = DimensionSet(@, ev.browser),
                !.referrerCounts = DimensionSet(@, ev.referrer)]

\* the loop body of buildDailyStatsBulkOps for one event
AddToEntry(entry, ev) ==
  [entry EXCEPT !.total_views = @ + 1,
                !.addToSet = @ \cup {ev.visitor_id},
                !.pathCounts = PathCountsSet(@, ev.path),
                !.deviceCounts = DimensionSet(@, ev.device_type),
                !.browserCounts = DimensionSet(@, ev.browser),
                !.referrerCounts = DimensionSet(@, ev.referrer)]

RECURSIVE BuildOpsMap(_, _)
\* opsMap after the events loop, events taken in array order
BuildOpsMap(events, opsMap) ==
  IF events = << >> THEN opsMap
  ELSE LET ev == Head(events)
           key == BucketKey(ev)
           entry == IF key \in DOMAIN opsMap THEN opsMap[key] ELSE NewEntry(ev)
       IN BuildOpsMap(Tail(events),
            [k \in DOMAIN opsMap \cup {key} |->
               IF k = key THEN AddToEntry(entry, ev) ELSE opsMap[k]])

\* the updateOne operations (filter {site_id, date}, $inc, $addToSet, upsert)
\* of one batch, as a function from bucket key to operation
buildDailyStatsBulkOps(events) == BuildOpsMap(events, << >>)

(* ------------------- worker/processor.ts: dirty keys ------------------- *)
\* a site id that its owner chose at creation: it holds "::" followed by
\* the text of day 0
NestedSite == "s1::1970-01-01"

\* the parts of a site id between its "::" separators, the text of a day
\* being the day
PartsOf(site_id) == IF site_id = NestedSite THEN <<"s1", 0>> ELSE <<site_id>>

\* `${b.data.site_id}::${formatDate(...)}`: a string is the sequence of
\* its "::"-separated parts
dateKey(site_id, date) == PartsOf(site_id) \o <<date>>

\* const [site_id, date] = dateKey.split('::'): the first two parts
SplitKey(key) == <<key[1], key[2]>>

(* ------------------- storage: daily_stats documents -------------------- *)
\* the document an upsert inserts before applying its update operators
EmptyDoc ==
  [total_views |-> 0, unique_users |-> {}, path_counts |-> << >>,
   device_counts |-> << >>, browser_counts |-> << >>, referrer_counts |-> << >>,
   sessions_count |-> 0, avg_session_duration |-> 0, avg_pages_per_session |-> 0,
   bounce_rate |-> 0]

\* $inc of the counts of one dimension: `device_counts.${d}` and the like
IncCounts(stored, inc) ==
  [d \in DOMAIN stored \cup DOMAIN inc |->
     (IF d \in DOMAIN stored THEN stored[d] ELSE 0)
     + (IF d \in DOMAIN inc THEN inc[d] ELSE 0)]

\* two $inc field paths of one update where one is a prefix of the other
UpdateConflict(op) ==
  \E p, q \in DOMAIN op.pathCounts : IsProperPrefix(p, q)

\* a $inc field path that passes through a number of the stored document,
\* or that names an embedded document of it
DocConflict(doc, op) ==
  \E p \in DOMAIN op.pathCounts, q \in DOMAIN doc.path_counts :
     IsProperPrefix(p, q) \/ IsProperPrefix(q, p)

\* $inc total_views and path_counts.<p>, $addToSet unique_users, on one document
\* an update that $set unique_users to the visitors of the batch
ApplyUpdate_SetUsers(doc, op) ==
  [total_views |-> doc.total_views + op.total_views,
   unique_users |-> op.addToSet,
   path_counts |->
     [p \in DOMAIN doc.path_counts \cup DOMAIN op.pathCounts |->
        (IF p \in DOMAIN doc.path_counts THEN doc.path_counts[p] ELSE 0)
        + (IF p \in DOMAIN op.pathCounts THEN op.pathCounts[p] ELSE 0)],
   device_counts |-> IncCounts(doc.device_counts, op.deviceCounts),
   browser_counts |-> IncCounts(doc.browser_counts, op.browserCounts),
   referrer_counts |-> IncCounts(doc.referrer_counts, op.referrerCounts),
   sessions_count |-> doc.sessions_count,
   avg_session_duration |-> doc.avg_session_duration,
   avg_pages_per_session |-> doc.avg_pages_per_session,
   bounce_rate |-> doc.bounce_rate]

ApplyUpdate(doc, op) ==
  [total_views |-> doc.total_views + op.total_views,
   unique_users |-> doc.unique_users \cup op.addToSet,
   path_counts |->
     [p \in DOMAIN doc.path_counts \cup DOMAIN op.pathCounts |->
        (IF p \in DOMAIN doc.path_counts THEN doc.path_counts[p] ELSE 0)
        + (IF p \in DOMAIN op.pathCounts THEN op.pathCounts[p] ELSE 0)],
   device_counts |-> IncCounts(doc.device_counts, op.deviceCounts),
   browser_counts |-> IncCounts(doc.browser_counts, op.browserCounts),
   referrer_counts |-> IncCounts(doc.referrer_counts, op.referrerCounts),
   sessions_count |-> doc.sessions_count,
   avg_session_duration |-> doc.avg_session_duration,
   avg_pages_per_session |-> doc.avg_pages_per_session,
   bounce_rate |-> doc.bounce_rate]

\* the row an updateOne with upsert: true works on: the stored row of the
\* filter, or the row it inserts when the collection has none
RowOf(coll, key) == IF key \in DOMAIN coll THEN coll[key] ELSE EmptyDoc

\* the server rejects the update as a whole on a path conflict
UpsertFails(coll, key, op) ==
  UpdateConflict(op) \/ DocConflict(RowOf(coll, key), op)

\* the collection after the server applied updateOne(filter, update, {upsert: true})
Upsert(coll, key, op) ==
  [k \in DOMAIN coll \cup {key} |->
     IF k = key THEN ApplyUpdate(RowOf(coll, key), op) ELSE coll[k]]

\* a placeholder that $set total_views: the views of a stored row are reset
createDailyStats_Views(coll, key) ==
  [k \in DOMAIN coll \cup {key} |->
     IF k = key THEN [RowOf(coll, key) EXCEPT !.total_views = 0] ELSE coll[k]]

\* a placeholder written with $set: it replaces the row of the bucket
createDailyStats_Set(coll, key) ==
  [k \in DOMAIN coll \cup {key} |-> IF k = key THEN EmptyDoc ELSE coll[k]]

\* the collection after the server applied the updateOne of createDailyStats:
\* $setOnInsert of the zero counters, upsert: true
createDailyStats(coll, key) ==
  [k \in DOMAIN coll \cup {key} |-> IF k \in DOMAIN coll THEN coll[k] ELSE EmptyDoc]

\* sum of the numbers stored under path_counts
PathCountsSum(doc) == SumOver(doc.path_counts, DOMAIN doc.path_counts)

\* what a reader of path_counts finds under the key of a path: the count,
\* or nothing when the stored key is not this path
PathCountOf(doc, path) ==
  IF Len(path) = 1 /\ path \in DOMAIN doc.path_counts
  THEN doc.path_counts[path] ELSE 0

(* ------------------- lib/stats.ts: updateSession ---------------------- *)
\* the rows of the sessions collection that the filter {session_id} matches
SessionRows(coll, session_id) == { r \in coll : r.session_id = session_id }

\* an update that sets the fields and leaves page_count as it is
updateSession_NoInc(coll, session_id, site_id, visitor_id, at) ==
  IF SessionRows(coll, session_id) = {}
  THEN coll \cup {[session_id |-> session_id, site_id |-> site_id, user_id |-> visitor_id,
                    started_at |-> at, last_activity |-> at, page_count |-> 1]}
  ELSE LET r == CHOOSE x \in SessionRows(coll, session_id) : TRUE
       IN (coll \ {r}) \cup
            {[r EXCEPT !.site_id = site_id, !.user_id = visitor_id, !.last_activity = at]}

\* the collection after the server applied the updateOne of updateSession,
\* called when the clock showed `at`: $set site_id, user_id and last_activity
\* to now, $inc page_count, $setOnInsert started_at to now, upsert: true
updateSession(coll, session_id, site_id, visitor_id, at) ==
  IF SessionRows(coll, session_id) = {}
  THEN coll \cup {[session_id |-> session_id, site_id |-> site_id, user_id |-> visitor_id,
                    started_at |-> at, last_activity |-> at, page_count |-> 1]}
  ELSE LET r == CHOOSE x \in SessionRows(coll, session_id) : TRUE
       IN (coll \ {r}) \cup
            {[r EXCEPT !.site_id = site_id, !.user_id = visitor_id, !.last_activity = at,
                       !.page_count = @ + 1]}

RECURSIVE SessionUpdates(_, _, _, _)
\* the collection after the updateSession calls of a batch, made when the
\* clock showed `at`, were applied; data gives the event of each job
SessionUpdates(coll, batch, data, at) ==
  IF batch = << >> THEN coll
  ELSE LET d == data[Head(batch)]
       IN SessionUpdates(updateSession(coll, d.user_id, d.site_id, d.user_id, at),
                         Tail(batch), data, at)

\* the milliseconds of one unit of the model's clock, an hour
MsPerTick == 3600000

\* date.getTime() of an instant of the model's clock
getTime(t) == t * MsPerTick

\* a / n cut to an integer
MathRound_Floor(a, n) == a \div n

\* Math.round(a / n) for n > 0: the nearest integer, a half rounds up
MathRound(a, n) == (2 * a + n) \div (2 * n)

\* calculateSessionMetrics(site_id, date) over the sessions that the site
\* started on the date; avg_pages_per_session is in tenths of a page and
\* bounce_rate in tenths of a percent (the code divides the rounded number
\* by 10)
calculateSessionMetrics(coll, site_id, date) ==
  LET found == { r \in coll : r.site_id = site_id /\ formatDate(r.started_at) = date }
      n == Cardinality(found)
      duration == [r \in found |-> getTime(r.last_activity) - getTime(r.started_at)]
      pages == [r \in found |-> r.page_count]
      bounced == [r \in found |-> IF r.page_count = 1 THEN 1 ELSE 0]
  IN IF n = 0
     THEN [sessions_count |-> 0, avg_session_duration |-> 0,
           avg_pages_per_session |-> 0, bounce_rate |-> 0]
     ELSE [sessions_count |-> n,
           avg_session_duration |-> MathRound(SumOver(duration, found), 1000 * n),
           avg_pages_per_session |-> MathRound(SumOver(pages, found) * 10, n),
           bounce_rate |-> MathRound(SumOver(bounced, found) * 1000, n)]

(* ------------------- events collection --------------------------------- *)
\* the collection after Event.collection.bulkWrite inserted one document for
\* each element of the batch
InsertEvents(coll, batch) ==
  [j \in DOMAIN coll |-> coll[j] + Cardinality({ i \in DOMAIN batch : batch[i] = j })]

(* ------------------- lib/queue.ts: BullMQ job options ------------------ *)
\* backoff {type: 'exponential', delay}: delay before the retry that follows
\* the attemptsMade-th failed attempt
BackoffFor(attemptsMade) == Pow2(attemptsMade - 1) * BackoffDelay

\* a queue without an attempt limit
RetryAllowed_Always(attemptsMade) == TRUE

\* a failed attempt is retried while attempts remain
RetryAllowed(attemptsMade) == attemptsMade < Attempts

(* ------------------- lib/validateEvent.ts ------------------------------ *)
\* a text of 60 characters and a text of 501 characters
Text60 == "<60 characters>"
Text501 == "<501 characters>"
\* an ISO 8601 datetime, and the instant it denotes
IsoTen == "1970-01-01T10:00:00.000Z"

\* str.length
StrLen(str) ==
  CASE str = "" -> 0
    [] str = "A" -> 1
    [] str = "s1" -> 2
    [] str = "s2" -> 2
    [] str = "/home" -> 5
    [] str = "pageview" -> 8
    [] str = "yesterday" -> 9
    [] str = IsoTen -> 24
    [] str = Text60 -> 60
    [] str = Text501 -> 501

\* z.string().datetime(): the text is an ISO 8601 datetime
IsDatetime(str) == str = IsoTen

\* new Date(timestamp), in hours
DateOf(str) == IF str = IsoTen THEN 10 ELSE 0

\* the segments of a path
SegmentsOf(str) == IF str = "/home" THEN PHome ELSE << >>

\* the largest lengths that EventSchema accepts
MaxSiteId == 100
MaxEventType == 50
MaxPath == 500
MaxUserId == 100

\* the fields of EventSchema
SchemaFields == {"site_id", "event_type", "path", "user_id", "timestamp"}

\* the fields of EventSchema that body violates: the schema reports an issue
\* for each
SchemaIssues(body) ==
  { f \in SchemaFields :
      CASE f = "site_id" ->
             body.site_id # Absent
             /\ (StrLen(body.site_id) < 1 \/ StrLen(body.site_id) > MaxSiteId)
        [] f = "event_type" ->
             \/ body.event_type = Absent
             \/ StrLen(body.event_type) < 1 \/ StrLen(body.event_type) > MaxEventType
        [] f = "path" ->
             \/ body.path = Absent
             \/ StrLen(body.path) < 1 \/ StrLen(body.path) > MaxPath
        [] f = "user_id" ->
             \/ body.user_id = Absent
             \/ StrLen(body.user_id) < 1 \/ StrLen(body.user_id) > MaxUserId
        [] f = "timestamp" ->
             body.timestamp # Absent /\ ~IsDatetime(body.timestamp) }

\* validateEvent(data) at instant clock: the parsed event, whose absent
\* timestamp is the current instant, or the fields of the issues (a body that
\* is no object has one issue, of the empty path)
validateEvent(body, clock) ==
  IF ~body.object THEN [success |-> FALSE, fields |-> {""}, timestamp |-> 0]
  ELSE IF SchemaIssues(body) # {}
  THEN [success |-> FALSE, fields |-> SchemaIssues(body), timestamp |-> 0]
  ELSE [success |-> TRUE, fields |-> {},
        timestamp |-> IF body.timestamp = Absent THEN clock ELSE DateOf(body.timestamp)]

(* ------------------- the rate limiter ---------------------------------- *)
\* the addresses of the clients
IPs == {"ip1", "ip2"}

\* the Host header of the requests
Host == "host"

\* the ip of a request in POST: the first non-empty of the headers
\* x-forwarded-for, x-real-ip and host, else 'unknown'
IpOf(req) ==
  IF Truthy(req.forwarded) THEN req.forwarded
  ELSE IF Truthy(req.realIp) THEN req.realIp
  ELSE IF Truthy(req.host) THEN req.host
  ELSE "unknown"

\* the texts that getKey gets as ip
RateKeys == IPs \cup {Host, "unknown"}

\* checkRateLimit(ip), the counter of the ip's minute being count: INCR and
\* compare
checkRateLimit_Open(count) ==
  [current |-> count + 1, allowed |-> TRUE]

checkRateLimit(count) ==
  [current |-> count + 1, allowed |-> count + 1 <= LIMIT_PER_MINUTE]

(* ------------------- app/api/event/route.ts ---------------------------- *)
\* the sites collection: the site of each API key
SiteOfKey == [k \in {"k1"} |-> "s1"]

\* the JSON bodies that clients send
Bodies ==
  [object : {TRUE},
   site_id : {Absent, "", "s1", "s2"},
   event_type : {Absent, "pageview", Text60},
   path : {"", "/home", Text501},
   user_id : {Absent, "A"},
   timestamp : {Absent, IsoTen, "yesterday"}]
  \cup
  [object : {FALSE}, site_id : {Absent}, event_type : {Absent}, path : {Absent},
   user_id : {Absent}, timestamp : {Absent}]

\* the requests that arrive through a proxy that sets x-forwarded-for to the
\* client's address: the address, the headers x-forwarded-for, x-real-ip,
\* host and x-api-key, the body, and whether the database answers the lookup
\* of the site
Requests ==
  [addr : {"ip1"}, forwarded : {"ip1"}, realIp : {Absent}, host : {Host},
   apiKey : {Absent, "k0", "k1"}, db : BOOLEAN, body : Bodies]
  \cup
  [addr : {"ip2"}, forwarded : {"ip2"}, realIp : {Absent}, host : {Host},
   apiKey : {Absent, "k0", "k1"}, db : BOOLEAN, body : Bodies]

ValidBody ==
  [object |-> TRUE, site_id |-> Absent, event_type |-> "pageview", path |-> "/home",
   user_id |-> "A", timestamp |-> Absent]

ValidRequest ==
  [addr |-> "ip1", forwarded |-> "ip1", realIp |-> Absent, host |-> Host,
   apiKey |-> "k1", db |-> TRUE, body |-> ValidBody]

NoEvent ==
  [site_id |-> "", event_type |-> "", timestamp |-> 0, user_id |-> "", path |-> << >>,
   device_type |-> Absent, browser |-> Absent, referrer |-> Absent]

NoResponse == [status |-> 0, fields |-> {}]

\* the outcome of POST for request req at instant clock, the counter of the
\* client's minute being count: the status, the fields of the error details
\* and the event that is added to the queue
Handle(req, count, clock) ==
  LET none(status) == [status |-> status, fields |-> {}, enqueue |-> FALSE, event |-> NoEvent]
      v == validateEvent(req.body, clock)
  IN
  IF ~checkRateLimit(count).allowed THEN none(429)
  ELSE IF req.apiKey = Absent THEN none(401)
  ELSE IF ~req.db THEN none(500)
  ELSE IF req.apiKey \notin DOMAIN SiteOfKey THEN none(401)
  ELSE IF ~v.success
  THEN [status |-> 400, fields |-> v.fields, enqueue |-> FALSE, event |-> NoEvent]
  ELSE [status |-> 200, fields |-> {}, enqueue |-> TRUE,
        event |-> [site_id |-> SiteOfKey[req.apiKey],
                   event_type |-> req.body.event_type,
                   timestamp |-> v.timestamp,
                   user_id |-> req.body.user_id,
                   path |-> SegmentsOf(req.body.path),
                   device_type |-> Absent, browser |-> Absent, referrer |-> Absent]]

(* ------------------------------ state ---------------------------------- *)
VARIABLES
  jobState,        \* queue state of each job: none, waiting, active, delayed, completed, failed
  attemptsMade,    \* finished processing attempts of each job
  jobData,         \* the AnalyticsEvent of each job
  delays,          \* the backoff delays the queue gave each job, in order
  buffer,          \* BufferedEvent[] of the worker (job ids)
  timerHandle,     \* 0 for null, else the job whose processEvent call armed the Timeout
  timers,          \* Timeouts pending in the runtime
  flushes,         \* flushBuffer executions awaiting their writes
  dailyStats,      \* daily_stats collection: bucket key -> row
  processedDates,  \* bucket keys awaiting session metric recalculation
  storageUp,       \* FALSE while the storage is unavailable: its writes fail
  outages,         \* times the storage became unavailable
  run,             \* joins and size-triggered flushes since the last timer expiry or signal
  eventsColl,      \* events collection: number of documents inserted for each job
  sessions,        \* sessions collection: set of rows
  now,             \* the wall clock of the worker process (new Date())
  observed,        \* the collections among events and sessions whose contents are recorded
  sdk,             \* the browser SDK of one page: its queue, timers, sends and connectivity
  request,         \* the request that clients send to the API
  response,        \* the response to the latest request (status 0: none yet)
  rl,              \* the rate limiter's counter of each ip for the current minute
  dates,           \* the site-date keys that running recalculations have left to do
  shutdown         \* the gracefulShutdown handlers, the worker and the queue connection

vars == <<jobState, attemptsMade, jobData, delays, buffer, timerHandle, timers,
          flushes, dailyStats, processedDates, storageUp, outages, run,
          eventsColl, sessions, now, observed, sdk, request, response, rl, dates, shutdown>>

queueVars == <<jobState, attemptsMade, jobData, delays>>
bufferVars == <<buffer, timerHandle, timers, run>>
envVars == <<storageUp, outages>>
storeVars == <<eventsColl, sessions>>
ingestVars == <<request, response, rl>>
otherVars == <<now, observed, sdk, request, response, rl, dates, shutdown>>

\* the signals that have a gracefulShutdown handler
Signals == {"SIGTERM", "SIGINT"}

\* the process runs: no signal arrived, the interval of the recalculation is
\* set, the worker runs and the queue connection is open
NoShutdown ==
  [pc |-> [sig \in Signals |-> "none"],
   batch |-> [sig \in Signals |-> << >>],
   keys |-> [sig \in Signals |-> {}],
   interval |-> TRUE, worker |-> "running", queue |-> "open", exited |-> FALSE]

(* ------------------- public/analytics.js: the browser SDK --------------- *)
\* events that the page tracks during a run
MaxTracked == 2
\* config.batchSize of the modelled page
SDK_BATCH_SIZE == 2
\* config.maxRetries of the modelled page
MAX_RETRIES == 2

\* the page after the script ran with an empty localStorage: eventQueue,
\* the queue stored under QUEUE_KEY, flushTimer (TRUE for a pending
\* handle), the pending timeouts whose handle is not in flushTimer,
\* isOnline, the batches of the fetches in flight, and the records of the
\* run: the number of tracked events, the fetches that carried each event
\* and the events tracked since the browser went offline
SdkInit ==
  [eventQueue |-> << >>, stored |-> << >>, flushTimer |-> FALSE, timeouts |-> 0,
   isOnline |-> TRUE, sending |-> << >>, tracked |-> 0,
   fetches |-> [i \in 1..MaxTracked |-> 0], offlineTracked |-> {}]

\* no request was sent
IngestIdle ==
  /\ request = ValidRequest
  /\ response = NoResponse
  /\ rl = [k \in RateKeys |-> 0]

ActiveJobs == { j \in Jobs : jobState[j] = "active" }

Init ==
  /\ jobState = [j \in Jobs |-> "none"]
  /\ attemptsMade = [j \in Jobs |-> 0]
  /\ jobData = [j \in Jobs |-> CHOOSE e \in Events : TRUE]
  /\ delays = [j \in Jobs |-> << >>]
  /\ buffer = << >>
  /\ timerHandle = 0
  /\ timers = 0
  /\ flushes = {}
  /\ dailyStats = << >>
  /\ processedDates = {}
  /\ storageUp = TRUE
  /\ outages = 0
  /\ run = [n |-> 0, sizeFlushes |-> 0]
  /\ eventsColl = [j \in Jobs |-> 0]
  /\ sessions = {}
  /\ now = HomeView.timestamp
  /\ observed = {}
  /\ sdk = SdkInit
  /\ dates = {}
  /\ shutdown = NoShutdown
  /\ IngestIdle

(* ------------------- queue: completion of a job ------------------------ *)
\* the queue state of a job whose processor promise resolved: moveToCompleted
JobResolved(made) == "completed"

\* the queue state of a job whose processor promise rejected after it made
\* `made` attempts: moveToFailed delays it for a retry or puts it in the failed set
JobRejected(made) == IF RetryAllowed(made) THEN "delayed" ELSE "failed"

\* the queue after the processor promises of the jobs of batch settled
SettleJobs(batch, resolved) ==
  LET S == Range(batch) IN
  /\ jobState' = [j \in Jobs |->
        IF j \notin S THEN jobState[j]
        ELSE IF resolved THEN JobResolved(attemptsMade[j] + 1)
        ELSE JobRejected(attemptsMade[j] + 1)]
  /\ attemptsMade' = [j \in Jobs |-> IF j \in S THEN attemptsMade[j] + 1 ELSE attemptsMade[j]]
  /\ delays' = [j \in Jobs |->
        IF j \in S /\ ~resolved /\ RetryAllowed(attemptsMade[j] + 1)
        THEN Append(delays[j], BackoffFor(attemptsMade[j] + 1))
        ELSE delays[j]]
  /\ UNCHANGED jobData

(* ------------------- worker/processor.ts: flushBuffer ------------------ *)
\* a splice that leaves the elements in the buffer
Splice_Keep(buf) == [batch |-> buf, rest |-> buf]

\* buffer.splice(0, buffer.length): the removed elements and what is left
Splice(buf) == [batch |-> buf, rest |-> << >>]

\* statsEvents of a batch
StatsEventsOf(batch) == [i \in 1..Len(batch) |-> StatsEvent(jobData[batch[i]])]

\* the stats operations of a batch
StatsOpsOf(batch) == buildDailyStatsBulkOps(StatsEventsOf(batch))

\* a flush right after it issued its writes: the events bulkWrite, the
\* updateSession calls, one updateOne per bucket in the stats bulkWrite
NewFlush(batch, trigger) ==
  [batch |-> batch, trigger |-> trigger, at |-> now,
   evW |-> "p",
   sessW |-> "p",
   statsW |-> [k \in DOMAIN StatsOpsOf(batch) |-> "p"]]

\* DailyStats.collection.bulkWrite(statsOps, {ordered: false}): settles once
\* every operation was tried, rejected if one of them failed
StatsBulk(f) ==
  IF \E k \in DOMAIN f.statsW : f.statsW[k] = "p" THEN "p"
  ELSE IF \E k \in DOMAIN f.statsW : f.statsW[k] = "fail" THEN "fail"
  ELSE "ok"

\* Promise.allSettled in place of Promise.all: settles when nothing is
\* outstanding and never rejects
PromiseAllSettled(f) ==
  IF f.evW = "p" \/ f.sessW = "p" \/ StatsBulk(f) = "p" THEN "pending" ELSE "resolved"

\* Promise.all over the events bulkWrite, the session updates and the stats
\* bulkWrite: rejected by the first rejection, resolved when all resolved
PromiseAll(f) ==
  IF f.evW = "fail" \/ f.sessW = "fail" \/ StatsBulk(f) = "fail" THEN "rejected"
  ELSE IF f.evW = "ok" /\ f.sessW = "ok" /\ StatsBulk(f) = "ok" THEN "resolved"
  ELSE "pending"

AllWritesOk(f) ==
  f.evW = "ok" /\ f.sessW = "ok" /\ \A k \in DOMAIN f.statsW : f.statsW[k] = "ok"

\* the outcome of the updateOne of bucket k of flush f on the collection ds
StatsOpOk(ds, f, k) == storageUp /\ ~UpsertFails(ds, k, StatsOpsOf(f.batch)[k])

\* the collection after the server tried the updateOne of bucket k of flush f
StatsOpApply(ds, f, k) ==
  IF StatsOpOk(ds, f, k) THEN Upsert(ds, k, StatsOpsOf(f.batch)[k]) ELSE ds

RECURSIVE Drain(_, _, _)
\* the collection after the server tried the updateOnes of the buckets K of flush f
Drain(ds, f, K) ==
  IF K = {} THEN ds
  ELSE LET k == CHOOSE x \in K : TRUE
       IN Drain(StatsOpApply(ds, f, k), f, K \ {k})

\* the events collection after the server tried the bulkWrite of flush f
EventsWrite(coll, f) ==
  IF storageUp /\ "events" \in observed THEN InsertEvents(coll, f.batch) ELSE coll

\* the sessions collection after the server tried the updateSession calls of flush f
SessionsWrite(coll, f) ==
  IF storageUp /\ "sessions" \in observed
  THEN SessionUpdates(coll, f.batch, jobData, f.at) ELSE coll

\* flushBuffer called with the buffer holding buf: clears the timer, returns
\* on an empty buffer, else splices the batch, builds the operations and
\* issues all writes, then awaits them (connectDB returns the cached connection)
flushBuffer(buf, trigger) ==
  LET sp == Splice(buf) IN
  /\ timerHandle' = 0
  /\ timers' = IF trigger = "timer" \/ timerHandle # 0 THEN timers - 1 ELSE timers
  /\ IF buf = << >>
     THEN /\ buffer' = buf
          /\ flushes' = flushes
          /\ processedDates' = processedDates
     ELSE /\ buffer' = sp.rest
          /\ flushes' = flushes \cup {NewFlush(sp.batch, trigger)}
          /\ processedDates' = processedDates \cup
               { dateKey(jobData[j].site_id, formatDate(jobData[j].timestamp)) :
                   j \in Range(sp.batch) }

\* the continuation of flushBuffer after one of its writes completed, the
\* flush being f before and g after and the collections being ds (daily
\* stats), ec (events) and ss (sessions): when
\* Promise.all resolves, every job of the batch is resolved; when it rejects,
\* every job of the batch is rejected, and the writes of the flush that are
\* still outstanding run to completion unobserved
AfterWrite(f, g, ds, ec, ss) ==
  IF PromiseAll(g) = "pending"
  THEN /\ flushes' = (flushes \ {f}) \cup {g}
       /\ dailyStats' = ds
       /\ eventsColl' = ec
       /\ sessions' = ss
       /\ UNCHANGED queueVars
  ELSE /\ flushes' = flushes \ {f}
       /\ dailyStats' = Drain(ds, g, { k \in DOMAIN g.statsW : g.statsW[k] = "p" })
       /\ eventsColl' = IF g.evW = "p" THEN EventsWrite(ec, g) ELSE ec
       /\ sessions' = IF g.sessW = "p" THEN SessionsWrite(ss, g) ELSE ss
       /\ SettleJobs(f.batch, PromiseAll(g) = "resolved")

(* ------------------- worker/processor.ts: processEvent ----------------- *)
\* a re-arming guard: a Timeout is created whatever the handle holds
ArmTimer_Always(handle) == TRUE

\* a guard that never arms the idle timer
ArmTimer_Never(handle) == FALSE

\* the else-if guard that arms the idle timer: !timerHandle
ArmTimer(handle) == handle = 0

\* a threshold that is off by one
BatchFull_Over(buf, size) == Len(buf) > size

\* buffer.length >= BATCH_SIZE, the threshold being size
BatchFull(buf, size) == Len(buf) >= size

\* a worker that takes jobs whatever the number of active ones
SlotFree_Unbounded(active, concurrency) == TRUE

\* a worker that takes one job more than its concurrency
SlotFree_OneMore(active, concurrency) == Cardinality(active) <= concurrency

\* the worker's concurrency option: it takes a job while fewer than
\* concurrency are active
SlotFree(active, concurrency) == Cardinality(active) < concurrency

\* the worker created with the given concurrency takes job j (the oldest
\* waiting job, or a delayed job with its backoff over) and calls
\* processEvent(job), BATCH_SIZE being size
processEventWith(j, size, concurrency) ==
  /\ jobState[j] \in {"waiting", "delayed"}
  /\ jobState[j] = "waiting" => \A i \in 1..(j - 1) : jobState[i] # "waiting"
  /\ SlotFree(ActiveJobs, concurrency)
  /\ jobState' = [jobState EXCEPT ![j] = "active"]
  /\ UNCHANGED <<attemptsMade, jobData, delays>>
  /\ LET buf == Append(buffer, j) IN
       IF BatchFull(buf, size)
       THEN /\ flushBuffer(buf, "size")
            /\ run' = [n |-> run.n + 1, sizeFlushes |-> run.sizeFlushes + 1]
       ELSE /\ buffer' = buf
            /\ IF ArmTimer(timerHandle)
               THEN /\ timerHandle' = j
                    /\ timers' = timers + 1
               ELSE UNCHANGED <<timerHandle, timers>>
            /\ run' = [run EXCEPT !.n = @ + 1]
            /\ UNCHANGED <<flushes, processedDates>>
  /\ UNCHANGED <<dailyStats, envVars, storeVars, otherVars>>

\* processEvent of the worker whose environment sets BATCH_SIZE and
\* QUEUE_CONCURRENCY
processEvent(j) == processEventWith(j, BATCH_SIZE, QUEUE_CONCURRENCY)

\* TIMEOUT_MS after it was armed the Timeout expires and its callback runs flushBuffer
TimerFire ==
  /\ timers > 0
  /\ timerHandle # 0
  /\ flushBuffer(buffer, "timer")
  /\ run' = [n |-> 0, sizeFlushes |-> 0]
  /\ UNCHANGED <<queueVars, dailyStats, envVars, storeVars, otherVars>>

\* a termination signal arrives while events are buffered: gracefulShutdown
\* up to its first await, flushBuffer()
Shutdown ==
  /\ buffer # << >>
  /\ flushBuffer(buffer, "shutdown")
  /\ run' = [n |-> 0, sizeFlushes |-> 0]
  /\ UNCHANGED <<queueVars, dailyStats, envVars, storeVars, otherVars>>

(* ------------------- completion of the storage writes ------------------ *)
\* a connection without socketTimeoutMS: an operation settles only when the
\* storage answers
OperationSettles_NoTimeout(up) == up

\* an operation that was issued settles whether the storage answers (up) or
\* not: the connection options serverSelectionTimeoutMS and socketTimeoutMS
\* make the driver reject an operation that gets no answer
OperationSettles(up) == TRUE

\* Event.collection.bulkWrite(eventInserts) of flush f completes
EventInsertDone(f) ==
  /\ f \in flushes
  /\ OperationSettles(storageUp)
  /\ f.evW = "p"
  /\ AfterWrite(f, [f EXCEPT !.evW = IF storageUp THEN "ok" ELSE "fail"], dailyStats,
                EventsWrite(eventsColl, f), sessions)
  /\ UNCHANGED <<bufferVars, processedDates, envVars, otherVars>>

\* the updateSession calls of flush f complete
SessionsDone(f) ==
  /\ f \in flushes
  /\ OperationSettles(storageUp)
  /\ f.sessW = "p"
  /\ AfterWrite(f, [f EXCEPT !.sessW = IF storageUp THEN "ok" ELSE "fail"], dailyStats,
                eventsColl, SessionsWrite(sessions, f))
  /\ UNCHANGED <<bufferVars, processedDates, envVars, otherVars>>

\* the updateOne of bucket k in the stats bulkWrite of flush f completes
StatsOpDone(f, k) ==
  /\ f \in flushes
  /\ OperationSettles(storageUp)
  /\ k \in DOMAIN f.statsW
  /\ f.statsW[k] = "p"
  /\ AfterWrite(f, [f EXCEPT !.statsW[k] = IF StatsOpOk(dailyStats, f, k) THEN "ok" ELSE "fail"],
                StatsOpApply(dailyStats, f, k), eventsColl, sessions)
  /\ UNCHANGED <<bufferVars, processedDates, envVars, otherVars>>

\* the storage becomes unavailable: writes completing from now on fail
StorageDown ==
  /\ storageUp
  /\ outages < MaxOutages
  /\ storageUp' = FALSE
  /\ outages' = outages + 1
  /\ UNCHANGED <<queueVars, bufferVars, flushes, dailyStats, processedDates,
                 storeVars, otherVars>>

\* the storage is available again
StorageUp ==
  /\ ~storageUp
  /\ storageUp' = TRUE
  /\ UNCHANGED <<queueVars, bufferVars, flushes, dailyStats, processedDates,
                 outages, storeVars, otherVars>>

(* ------------------- lib/queue.ts: addEventToQueue --------------------- *)
\* addEventToQueue that waits until the worker is idle and the storage answers
addEventToQueue_Sync(j, e) ==
  /\ jobState[j] = "none"
  /\ \A i \in Jobs : i < j => jobState[i] # "none"
  /\ flushes = {} /\ storageUp
  /\ jobState' = [jobState EXCEPT ![j] = "waiting"]
  /\ jobData' = [jobData EXCEPT ![j] = e]
  /\ UNCHANGED <<attemptsMade, delays, bufferVars, flushes, dailyStats,
                 processedDates, envVars, storeVars, now, observed, sdk, dates, shutdown>>

\* addEventToQueue(event): analyticsQueue.add
addEventToQueue(j, e) ==
  /\ jobState[j] = "none"
  /\ \A i \in Jobs : i < j => jobState[i] # "none"
  /\ jobState' = [jobState EXCEPT ![j] = "waiting"]
  /\ jobData' = [jobData EXCEPT ![j] = e]
  /\ UNCHANGED <<attemptsMade, delays, bufferVars, flushes, dailyStats,
                 processedDates, envVars, storeVars, now, observed, sdk, dates, shutdown>>

\* a producer adds event e as job j
Produce(j, e) == addEventToQueue(j, e) /\ UNCHANGED ingestVars

(* ------------------- app/api/event/route.ts: POST ---------------------- *)
\* POST /api/event handles the client's request: rate limit, API key, site
\* lookup, validation, addEventToQueue, response
POST ==
  LET out == Handle(request, rl[IpOf(request)], now) IN
  /\ rl[IpOf(request)] <= LIMIT_PER_MINUTE
  /\ rl' = [rl EXCEPT ![IpOf(request)] = checkRateLimit(@).current]
  /\ response' = [status |-> out.status, fields |-> out.fields]
  /\ request' = request
  /\ IF out.enqueue
     THEN \E j \in 1..MaxJobs : addEventToQueue(j, out.event)
     ELSE UNCHANGED <<queueVars, bufferVars, flushes, dailyStats, processedDates,
                      envVars, storeVars, now, observed, sdk, dates, shutdown>>

\* the next minute starts: the limiter counts under new keys
NextMinute ==
  /\ \E k \in RateKeys : rl[k] > 0
  /\ rl' = [k \in RateKeys |-> 0]
  /\ UNCHANGED <<queueVars, bufferVars, flushes, dailyStats, processedDates,
                 envVars, storeVars, now, observed, sdk, request, response, dates, shutdown>>

\* the wall clock advances
ClockTick ==
  /\ now < HomeView.timestamp + MaxTicks
  /\ now' = now + 1
  /\ UNCHANGED <<queueVars, bufferVars, flushes, dailyStats, processedDates,
                 envVars, storeVars, observed, sdk, ingestVars, dates, shutdown>>

RECURSIVE Placeholders(_, _, _)
\* the collection after createDailyStats(s.site_id, todayKey) and
\* createDailyStats(s.site_id, tomorrowKey) for each site s of S
Placeholders(coll, S, today) ==
  IF S = {} THEN coll
  ELSE LET site == CHOOSE x \in S : TRUE
       IN Placeholders(
            createDailyStats(createDailyStats(coll, <<site, today>>), <<site, today + 1>>),
            S \ {site}, today)

\* runCleanup of the cron process: it precreates today's and tomorrow's
\* rows of every site (no stored event is older than the retention window);
\* an error of the storage is logged
runCleanup ==
  /\ dailyStats' = IF storageUp THEN Placeholders(dailyStats, Sites, formatDate(now))
                   ELSE dailyStats
  /\ UNCHANGED <<queueVars, bufferVars, flushes, processedDates, envVars,
                 storeVars, otherVars>>

\* a run that takes the tracked keys and leaves them in the set
recalculateSessionMetrics_NoClear ==
  /\ processedDates # {}
  /\ dates' = dates \cup processedDates
  /\ UNCHANGED <<queueVars, bufferVars, flushes, dailyStats, processedDates, envVars,
                 storeVars, now, observed, sdk, ingestVars, shutdown>>

\* the 30 s interval runs recalculateSessionMetrics: the run takes the
\* tracked site-date keys and clears the set
recalculateSessionMetrics ==
  /\ processedDates # {}
  /\ dates' = dates \cup processedDates
  /\ processedDates' = {}
  /\ UNCHANGED <<queueVars, bufferVars, flushes, dailyStats, envVars, storeVars,
                 now, observed, sdk, ingestVars, shutdown>>

\* an updateOne with upsert: true: a missing row is inserted with the metrics
SetMetrics_Upsert(coll, key, metrics) ==
  [k \in DOMAIN coll \cup {key} |->
     IF k = key
     THEN [RowOf(coll, key) EXCEPT
             !.sessions_count = metrics.sessions_count,
             !.avg_session_duration = metrics.avg_session_duration,
             !.avg_pages_per_session = metrics.avg_pages_per_session,
             !.bounce_rate = metrics.bounce_rate]
     ELSE coll[k]]

\* the collection after DailyStats.updateOne({site_id, date}, {$set: metrics})
\* without upsert: the row of the key, if there is one, gets the four metrics
SetMetrics(coll, key, metrics) ==
  [k \in DOMAIN coll |->
     IF k = key
     THEN [coll[k] EXCEPT
             !.sessions_count = metrics.sessions_count,
             !.avg_session_duration = metrics.avg_session_duration,
             !.avg_pages_per_session = metrics.avg_pages_per_session,
             !.bounce_rate = metrics.bounce_rate]
     ELSE coll[k]]

\* a loop that an error of the storage ends
RecalculateKey_Abort(k) ==
  /\ k \in dates
  /\ dates' = IF storageUp THEN dates \ {k} ELSE {}
  /\ dailyStats' =
       IF storageUp
       THEN LET b == SplitKey(k)
            IN SetMetrics(dailyStats, b, calculateSessionMetrics(sessions, b[1], b[2]))
       ELSE dailyStats
  /\ UNCHANGED <<queueVars, bufferVars, flushes, processedDates, envVars, storeVars,
                 now, observed, sdk, ingestVars, shutdown>>

\* the loop of a recalculation run takes its key k: calculateSessionMetrics
\* and the updateOne of the row; an error of the storage is logged and the
\* loop goes on
RecalculateKey(k) ==
  /\ k \in dates
  /\ dates' = dates \ {k}
  /\ dailyStats' =
       IF storageUp
       THEN LET b == SplitKey(k)
            IN SetMetrics(dailyStats, b, calculateSessionMetrics(sessions, b[1], b[2]))
       ELSE dailyStats
  /\ UNCHANGED <<queueVars, bufferVars, flushes, processedDates, envVars, storeVars,
                 now, observed, sdk, ingestVars, shutdown>>

(* ------------------- worker/processor.ts: gracefulShutdown ------------- *)
\* the flush that the handler of sig awaits is in progress
FlushPending(sig) ==
  \E f \in flushes : f.trigger = "shutdown" /\ f.batch = shutdown.batch[sig]

\* the recalculation run that the handler of sig awaits is in progress
RecalculationPending(sig) == shutdown.keys[sig] \cap dates # {}

\* gracefulShutdown(signal) up to its first await: clearInterval and
\* flushBuffer() up to its writes
gracefulShutdown(sig) ==
  /\ ~shutdown.exited
  /\ shutdown.pc[sig] = "none"
  /\ flushBuffer(buffer, "shutdown")
  /\ run' = [n |-> 0, sizeFlushes |-> 0]
  /\ shutdown' = [shutdown EXCEPT !.pc[sig] = "flushBuffer", !.batch[sig] = buffer,
                                  !.interval = FALSE]
  /\ UNCHANGED <<queueVars, dailyStats, envVars, storeVars, now, observed, sdk, ingestVars,
                 dates>>

\* await flushBuffer() returned to the handler of sig: it calls
\* recalculateSessionMetrics(), which takes the tracked keys
ShutdownRecalculate(sig) ==
  /\ ~shutdown.exited
  /\ shutdown.pc[sig] = "flushBuffer"
  /\ ~FlushPending(sig)
  /\ dates' = dates \cup processedDates
  /\ processedDates' = {}
  /\ shutdown' = [shutdown EXCEPT !.pc[sig] = "recalculateSessionMetrics",
                                  !.keys[sig] = processedDates]
  /\ UNCHANGED <<queueVars, bufferVars, flushes, dailyStats, envVars, storeVars,
                 now, observed, sdk, ingestVars>>

\* await recalculateSessionMetrics() returned to the handler of sig: it
\* calls worker.close(), and the worker takes no more jobs
ShutdownCloseWorker(sig) ==
  /\ ~shutdown.exited
  /\ shutdown.pc[sig] = "recalculateSessionMetrics"
  /\ ~RecalculationPending(sig)
  /\ shutdown' = [shutdown EXCEPT !.pc[sig] = "worker.close",
                                  !.worker = IF @ = "running" THEN "closing" ELSE @]
  /\ UNCHANGED <<queueVars, bufferVars, flushes, dailyStats, processedDates, envVars,
                 storeVars, now, observed, sdk, ingestVars, dates>>

\* worker.close() completes once no job is active
WorkerClosed ==
  /\ ~shutdown.exited
  /\ shutdown.worker = "closing"
  /\ ActiveJobs = {}
  /\ shutdown' = [shutdown EXCEPT !.worker = "closed"]
  /\ UNCHANGED <<queueVars, bufferVars, flushes, dailyStats, processedDates, envVars,
                 storeVars, now, observed, sdk, ingestVars, dates>>

\* await worker.close() returned to the handler of sig: it calls closeQueue()
ShutdownCloseQueue(sig) ==
  /\ ~shutdown.exited
  /\ shutdown.pc[sig] = "worker.close"
  /\ shutdown.worker = "closed"
  /\ shutdown' = [shutdown EXCEPT !.pc[sig] = "closeQueue", !.queue = "closed"]
  /\ UNCHANGED <<queueVars, bufferVars, flushes, dailyStats, processedDates, envVars,
                 storeVars, now, observed, sdk, ingestVars, dates>>

\* await closeQueue() returned to the handler of sig: process.exit(0)
ShutdownExit(sig) ==
  /\ ~shutdown.exited
  /\ shutdown.pc[sig] = "closeQueue"
  /\ shutdown' = [shutdown EXCEPT !.exited = TRUE]
  /\ UNCHANGED <<queueVars, bufferVars, flushes, dailyStats, processedDates, envVars,
                 storeVars, now, observed, sdk, ingestVars, dates>>

\* a step of the worker, its timer or a storage response
WorkerStep ==
  \/ \E j \in Jobs : processEvent(j)
  \/ TimerFire
  \/ \E f \in flushes : EventInsertDone(f)
  \/ \E f \in flushes : SessionsDone(f)
  \/ \E f \in flushes, k \in Buckets : StatsOpDone(f, k)

Next ==
  \/ \E j \in 1..MaxJobs, e \in Events : Produce(j, e)
  \/ WorkerStep
  \/ Shutdown
  \/ StorageDown
  \/ StorageUp

Spec == Init /\ [][Next]_vars

\* the worker while the storage stays available: more events, of one kind
BatchNext ==
  \/ \E j \in Jobs : Produce(j, HomeView)
  \/ WorkerStep
  \/ Shutdown

BatchSpec == Init /\ [][BatchNext]_vars

\* the pipeline fed events of one kind
FairNext ==
  \/ \E j \in 1..MaxJobs : Produce(j, HomeView)
  \/ WorkerStep
  \/ Shutdown
  \/ StorageDown
  \/ StorageUp

\* a run that records the events and sessions collections
SessionInit ==
  /\ jobState = [j \in Jobs |-> "none"]
  /\ attemptsMade = [j \in Jobs |-> 0]
  /\ jobData = [j \in Jobs |-> CHOOSE e \in Events : TRUE]
  /\ delays = [j \in Jobs |-> << >>]
  /\ buffer = << >>
  /\ timerHandle = 0
  /\ timers = 0
  /\ flushes = {}
  /\ dailyStats = << >>
  /\ processedDates = {}
  /\ storageUp = TRUE
  /\ outages = 0
  /\ run = [n |-> 0, sizeFlushes |-> 0]
  /\ eventsColl = [j \in Jobs |-> 0]
  /\ sessions = {}
  /\ now = HomeView.timestamp
  /\ observed = {"events", "sessions"}
  /\ sdk = SdkInit
  /\ dates = {}
  /\ shutdown = NoShutdown
  /\ IngestIdle

\* the pipeline fed events of one visitor while the clock advances
SessionNext ==
  \/ \E j \in 1..MaxJobs : Produce(j, HomeView)
  \/ WorkerStep
  \/ ClockTick
  \/ StorageDown
  \/ StorageUp

SessionSpec == SessionInit /\ [][SessionNext]_vars

\* a run that records the sessions collection
StatsInit ==
  /\ jobState = [j \in Jobs |-> "none"]
  /\ attemptsMade = [j \in Jobs |-> 0]
  /\ jobData = [j \in Jobs |-> CHOOSE e \in Events : TRUE]
  /\ delays = [j \in Jobs |-> << >>]
  /\ buffer = << >>
  /\ timerHandle = 0
  /\ timers = 0
  /\ flushes = {}
  /\ dailyStats = << >>
  /\ processedDates = {}
  /\ storageUp = TRUE
  /\ outages = 0
  /\ run = [n |-> 0, sizeFlushes |-> 0]
  /\ eventsColl = [j \in Jobs |-> 0]
  /\ sessions = {}
  /\ now = HomeView.timestamp
  /\ observed = {"sessions"}
  /\ sdk = SdkInit
  /\ dates = {}
  /\ shutdown = NoShutdown
  /\ IngestIdle

\* the pipeline fed a first event of visitor A and then events of visitor A
\* or B of the same day, with the cron process and the recalculation
\* interval running
StatsNext ==
  \/ Produce(1, HomeView)
  \/ \E j \in 2..MaxJobs : Produce(j, AboutView)
  \/ WorkerStep
  \/ runCleanup
  \/ recalculateSessionMetrics
  \/ \E k \in dates : RecalculateKey(k)
  \/ StorageDown
  \/ StorageUp

StatsSpec == StatsInit /\ [][StatsNext]_vars

\* the sessions of the stored collections that the recalculation reads
SessionIds == {"A", "B", "C", "D", "E", "F", "G"}

\* a session row as updateSession leaves it
SessionRow(id, site, started, last, pages) ==
  [session_id |-> id, site_id |-> site, user_id |-> id, started_at |-> started,
   last_activity |-> last, page_count |-> pages]

\* the rows that the collection can hold of session id: a bounce and a visit
\* of two pages on the first day and, of session A, a bounce on the next day
\* and a bounce on another site
RowChoices(id) ==
  { {}, {SessionRow(id, "s1", 10, 10, 1)}, {SessionRow(id, "s1", 10, 11, 2)} }
  \cup (IF id = "A"
        THEN { {SessionRow(id, "s1", 34, 34, 1)}, {SessionRow(id, "s2", 10, 10, 1)} }
        ELSE {})

RECURSIVE Collections(_)
\* the collections that hold at most one row of each session of ids
Collections(ids) ==
  IF ids = {} THEN { {} }
  ELSE LET id == CHOOSE x \in ids : TRUE
       IN { rows \cup coll : rows \in RowChoices(id), coll \in Collections(ids \ {id}) }

\* the worker with stored sessions and rows of two days, after flushes marked
\* the buckets and a bucket without a row for recalculation
MetricsInit ==
  /\ jobState = [j \in Jobs |-> "none"]
  /\ attemptsMade = [j \in Jobs |-> 0]
  /\ jobData = [j \in Jobs |-> CHOOSE e \in Events : TRUE]
  /\ delays = [j \in Jobs |-> << >>]
  /\ buffer = << >>
  /\ timerHandle = 0
  /\ timers = 0
  /\ flushes = {}
  /\ dailyStats = [k \in {<<"s1", 0>>, <<"s1", 1>>} |-> EmptyDoc]
  /\ processedDates = {<<"s1", 0>>, <<"s1", 1>>, <<"s2", 0>>}
  /\ storageUp = TRUE
  /\ outages = 0
  /\ run = [n |-> 0, sizeFlushes |-> 0]
  /\ eventsColl = [j \in Jobs |-> 0]
  /\ sessions \in Collections(SessionIds)
  /\ now = HomeView.timestamp
  /\ observed = {"sessions"}
  /\ sdk = SdkInit
  /\ dates = {}
  /\ shutdown = NoShutdown
  /\ IngestIdle

MetricsNext ==
  \/ recalculateSessionMetrics
  \/ \E k \in dates : RecalculateKey(k)
  \/ StorageDown
  \/ StorageUp

MetricsSpec == MetricsInit /\ [][MetricsNext]_vars

\* the worker process from its start to its exit: producers add events, the
\* worker takes jobs until it is closed, the interval runs the recalculation
\* until it is cleared, and the signals arrive at any time
ShutdownNext ==
  \/ \E j \in 1..MaxJobs : Produce(j, HomeView)
  \/ \E j \in Jobs : shutdown.worker = "running" /\ processEvent(j)
  \/ ~shutdown.exited /\ TimerFire
  \/ \E f \in flushes : ~shutdown.exited /\ EventInsertDone(f)
  \/ \E f \in flushes : ~shutdown.exited /\ SessionsDone(f)
  \/ \E f \in flushes, k \in Buckets : ~shutdown.exited /\ StatsOpDone(f, k)
  \/ shutdown.interval /\ recalculateSessionMetrics
  \/ \E k \in dates : ~shutdown.exited /\ RecalculateKey(k)
  \/ \E sig \in Signals : gracefulShutdown(sig)
  \/ \E sig \in Signals : ShutdownRecalculate(sig)
  \/ \E sig \in Signals : ShutdownCloseWorker(sig)
  \/ WorkerClosed
  \/ \E sig \in Signals : ShutdownCloseQueue(sig)
  \/ \E sig \in Signals : ShutdownExit(sig)

ShutdownSpec == SessionInit /\ [][ShutdownNext]_vars

\* the ingestion API serving a client that sends one request repeatedly
IngestInit ==
  /\ jobState = [j \in Jobs |-> "none"]
  /\ attemptsMade = [j \in Jobs |-> 0]
  /\ jobData = [j \in Jobs |-> CHOOSE e \in Events : TRUE]
  /\ delays = [j \in Jobs |-> << >>]
  /\ buffer = << >>
  /\ timerHandle = 0
  /\ timers = 0
  /\ flushes = {}
  /\ dailyStats = << >>
  /\ processedDates = {}
  /\ storageUp = TRUE
  /\ outages = 0
  /\ run = [n |-> 0, sizeFlushes |-> 0]
  /\ eventsColl = [j \in Jobs |-> 0]
  /\ sessions = {}
  /\ now = HomeView.timestamp
  /\ observed = {}
  /\ sdk = SdkInit
  /\ dates = {}
  /\ shutdown = NoShutdown
  /\ request \in Requests
  /\ response = NoResponse
  /\ rl = [k \in RateKeys |-> 0]

IngestNext ==
  \/ POST
  \/ NextMinute
  \/ ClockTick

IngestSpec == IngestInit /\ [][IngestNext]_vars

\* the ingestion API and the worker: a client sends valid requests while the
\* worker, its timer and the storage take their steps
DecoupledNext ==
  \/ POST
  \/ NextMinute
  \/ ClockTick
  \/ WorkerStep
  \/ StorageDown
  \/ StorageUp

DecoupledSpec == Init /\ [][DecoupledNext]_vars

\* the worker takes available jobs, expired timers run their callback and
\* the storage answers every write
FairSpec == Init /\ [][FairNext]_vars /\ WF_vars(WorkerStep)

TypeOK ==
  /\ jobState \in [Jobs -> {"none", "waiting", "active", "delayed", "completed", "failed"}]
  /\ timerHandle \in {0} \cup Jobs
  /\ outages \in 0..MaxOutages

(* ======================= properties ==================================== *)
\* the bucket operations of flush f that are outstanding
PendingOps(f) == { k \in DOMAIN f.statsW : f.statsW[k] = "p" }

\* the number of writes of flush f that are outstanding
PendingWrites(f) ==
  (IF f.evW = "p" THEN 1 ELSE 0) + (IF f.sessW = "p" THEN 1 ELSE 0)
  + Cardinality(PendingOps(f))

\* flush f has one write outstanding, every other write of it succeeded and
\* the outstanding one succeeds if it completes now
LastWriteOk(f) ==
  /\ PendingWrites(f) = 1
  /\ f.evW # "fail" /\ f.sessW # "fail"
  /\ \A k \in DOMAIN f.statsW : f.statsW[k] # "fail"
  /\ (f.evW = "p" \/ f.sessW = "p") => storageUp
  /\ \A k \in PendingOps(f) : StatsOpOk(dailyStats, f, k)

\* flush f ends in this step
FlushEnds(f) == \A g \in flushes' : g.batch # f.batch

\* C1: a job is acknowledged only in the step that completes the last write
\* of its batch, all writes of the batch having succeeded; a flush that ends
\* otherwise rejects every job of its batch; until then all its jobs stay active.
C1_AckAfterAllWrites ==
  [][\A f \in flushes :
       LET B == Range(f.batch) IN
       /\ (\E j \in B : jobState'[j] = "completed") => FlushEnds(f) /\ LastWriteOk(f)
       /\ FlushEnds(f) /\ LastWriteOk(f) => \A j \in B : jobState'[j] = "completed"
       /\ FlushEnds(f) /\ ~LastWriteOk(f) => \A j \in B : jobState'[j] \in {"delayed", "failed"}
       /\ ~FlushEnds(f) => \A j \in B : jobState'[j] = "active"
    ]_vars

\* a batch of two jobs was rejected as a whole and acknowledged as a whole on its retry
C1_Witness ==
  /\ \A j \in 1..MaxJobs : jobState[j] = "completed" /\ attemptsMade[j] = 2
  /\ outages = 1

Enqueued == { j \in Jobs : jobState[j] # "none" }

\* the bucket of the event of job j
BucketOf(j) == BucketKey(StatsEvent(jobData[j]))

\* every enqueued job was processed once, by a flush that succeeded
ProcessedWithoutFailure ==
  /\ Enqueued # {}
  /\ \A j \in Enqueued : jobState[j] = "completed" /\ attemptsMade[j] = 1

\* C3: when events of one site and one UTC date were processed without storage
\* failure, their bucket has total_views = number of events, unique_users =
\* their visitor ids and, under each path, the number of events with that path.
C3_EndToEnd ==
  (ProcessedWithoutFailure /\ \A i, j \in Enqueued : BucketOf(i) = BucketOf(j)) =>
    \A b \in { BucketOf(j) : j \in Enqueued } :
      /\ b \in DOMAIN dailyStats
      /\ dailyStats[b].total_views = Cardinality(Enqueued)
      /\ dailyStats[b].unique_users = { jobData[j].user_id : j \in Enqueued }
      /\ \A p \in Paths :
           PathCountOf(dailyStats[b], p) =
             Cardinality({ j \in Enqueued : jobData[j].path = p })

\* C4: once the jobs of a batch that touches two buckets are all acknowledged,
\* every bucket counts each of its events once, also when a flush of the
\* batch failed after one of its writes was applied.
C4_RetryCountsOnce ==
  (/\ \A j \in Enqueued : jobState[j] = "completed"
   /\ \E i, j \in Enqueued : BucketOf(i) # BucketOf(j)) =>
    \A b \in Buckets :
      RowOf(dailyStats, b).total_views = Cardinality({ j \in Enqueued : BucketOf(j) = b })

\* C5: a job that ends in the failed set was delayed 2s, 4s, 8s, 16s and 32s
\* between its attempts.
C5_FiveRetries ==
  \A j \in Jobs :
    jobState[j] = "failed" => delays[j] = <<2000, 4000, 8000, 16000, 32000>>

\* the number of times job j was handed to the worker
Deliveries(j) == attemptsMade[j] + (IF jobState[j] = "active" THEN 1 ELSE 0)

\* C6: every enqueued job is eventually completed or in the failed set; a job
\* in the failed set stays there and is not handed to the worker again; no
\* job is handed to the worker more than Attempts times.
C6_SettledOrDeadLettered ==
  /\ \A j \in 1..MaxJobs :
       (jobState[j] = "waiting") ~> (jobState[j] \in {"completed", "failed"})
  /\ [][\A j \in Jobs : jobState[j] = "failed" =>
            jobState'[j] = "failed" /\ attemptsMade'[j] = attemptsMade[j]]_vars
  /\ [](\A j \in Jobs : Deliveries(j) <= Attempts)

\* one job is in the failed set after Attempts attempts and another was
\* acknowledged on a retry
C6_Witness ==
  \E i, j \in Jobs :
    /\ jobState[i] = "failed" /\ attemptsMade[i] = Attempts
    /\ jobState[j] = "completed" /\ attemptsMade[j] > 1

\* C7: while no timer expires, n arrivals cause n \div BATCH_SIZE size
\* flushes, each of BATCH_SIZE events, and leave n % BATCH_SIZE events in the
\* buffer with the idle timer pending; a timer flush takes fewer than
\* BATCH_SIZE events.
C7_BatchThreshold ==
  /\ run.sizeFlushes = run.n \div BATCH_SIZE
  /\ Len(buffer) = run.n % BATCH_SIZE
  /\ buffer # << >> => timerHandle # 0 /\ timers = 1
  /\ \A f \in flushes :
       /\ f.trigger = "size" => Len(f.batch) = BATCH_SIZE
       /\ f.trigger = "timer" => Len(f.batch) \in 1..(BATCH_SIZE - 1)

\* seven arrivals without a timer expiry: two size flushes happened and the
\* seventh event waits in the buffer for the timer
C7_Witness ==
  /\ run.n = 7 /\ run.sizeFlushes = 2
  /\ buffer = <<7>> /\ timerHandle = 7

\* C8 as stated: at most one flush is in progress
C8_OneFlushAtATime == Cardinality(flushes) <= 1

\* C8: flushes overlap while they await their writes, at most
\* QUEUE_CONCURRENCY of them at a time; the batches of the flushes in
\* progress are pairwise disjoint and disjoint from the buffer.
C8_FlushesDisjoint ==
  /\ Cardinality(flushes) <= QUEUE_CONCURRENCY
  /\ \A f, g \in flushes : f # g => Range(f.batch) \cap Range(g.batch) = {}
  /\ \A f \in flushes : Range(f.batch) \cap Range(buffer) = {}

\* QUEUE_CONCURRENCY flushes are in progress, each awaiting writes
C8_Witness ==
  /\ Cardinality(flushes) = QUEUE_CONCURRENCY
  /\ \A f \in flushes : PendingWrites(f) > 0

\* C9: at most one Timeout is pending; while one is pending it is the one
\* armed by the first event of the buffer; a Timeout is armed only by an
\* event that joins an empty buffer, and an event that joins a non-empty
\* buffer leaves the pending Timeout as it is.
C9_TimerArmedOnce ==
  /\ [](timers <= 1)
  /\ [](timerHandle # 0 => buffer # << >> /\ timerHandle = Head(buffer))
  /\ [][(timerHandle' # 0 /\ timerHandle' # timerHandle) =>
         (buffer = << >> /\ Len(buffer') = 1)]_vars
  /\ [][(buffer # << >> /\ Len(buffer') > Len(buffer)) =>
         (timerHandle' = timerHandle /\ timers' = timers)]_vars

\* a second event joined the buffer and the Timeout armed by the first is pending
C9_Witness ==
  /\ Len(buffer) = 2
  /\ timerHandle = Head(buffer)
  /\ timers = 1

\* the number of batches, the buffer included, that hold job j
Holders(j) ==
  Cardinality({ f \in flushes : j \in Range(f.batch) })
  + Cardinality({ i \in DOMAIN buffer : buffer[i] = j })

\* C10: a job handed to processEvent and not yet settled is in the buffer or
\* in the batch of exactly one flush, once; a flush takes every event of the
\* buffer.
C10_ExactlyOneBatch ==
  /\ [](\A j \in Jobs : Holders(j) = IF jobState[j] = "active" THEN 1 ELSE 0)
  /\ [](\A f \in flushes : Cardinality(Range(f.batch)) = Len(f.batch))
  /\ [][\A j \in Range(buffer) :
          j \notin Range(buffer') =>
            /\ buffer' = << >>
            /\ \E f \in flushes' \ flushes : Range(buffer) \subseteq Range(f.batch)]_vars

\* two flushes are in progress and a later event is buffered
C10_Witness ==
  /\ Cardinality(flushes) = 2
  /\ \A f \in flushes : PendingWrites(f) > 0
  /\ buffer # << >>

\* the enqueued jobs whose event belongs to session sid (session_id = user_id)
SessionJobs(sid) == { j \in Enqueued : jobData[j].user_id = sid }

\* C11: in every Session row last_activity is not before started_at and
\* page_count is at least 1.
C11_SessionTiming ==
  \A r \in sessions : r.last_activity >= r.started_at /\ r.page_count >= 1

\* C12: started_at of a Session row is the timestamp of an event of the
\* session and so is last_activity.
C12_TouchTimestamps ==
  \A r \in sessions :
    /\ \E j \in SessionJobs(r.session_id) : r.started_at = jobData[j].timestamp
    /\ \E j \in SessionJobs(r.session_id) : r.last_activity = jobData[j].timestamp

\* the jobs of session sid whose latest session upsert the storage applied
Touched(sid) ==
  { j \in SessionJobs(sid) :
      \/ jobState[j] = "completed"
      \/ \E f \in flushes : j \in Range(f.batch) /\ f.sessW = "ok" }

\* C13: a session_id has at most one row; its page_count is at least the
\* number of its jobs whose upsert was applied and at most the number of
\* upserts issued for it, and equals the number applied while no write failed;
\* a session with an applied upsert has a row.
C13_NoLostTouch ==
  \A sid \in Visitors :
    /\ Cardinality(SessionRows(sessions, sid)) <= 1
    /\ Touched(sid) # {} => SessionRows(sessions, sid) # {}
    /\ \A r \in SessionRows(sessions, sid) :
         /\ r.page_count >= Cardinality(Touched(sid))
         /\ r.page_count <= SumOver([j \in Jobs |-> Deliveries(j)], SessionJobs(sid))
         /\ outages = 0 => r.page_count = Cardinality(Touched(sid))

\* two flushes in flight at once, started at different instants, both had
\* their upsert of the same session applied
C13_Witness ==
  /\ outages = 0
  /\ \E f, g \in flushes : f.at # g.at /\ f.sessW = "ok" /\ g.sessW = "ok"
  /\ \E r \in sessions : r.page_count = 2

\* C16: the events collection holds at most one document per enqueued event
C16_PersistedOnce ==
  \A j \in Jobs : eventsColl[j] <= 1

\* C14: no step removes a row or a member of unique_users, whether it applies
\* a batch, retries one, recalculates the session metrics or creates
\* placeholders; an update whose visitors are all in the set leaves it as it is.
C14_UniqueUsersMonotone ==
  /\ [][\A k \in DOMAIN dailyStats :
          /\ k \in DOMAIN dailyStats'
          /\ dailyStats[k].unique_users \subseteq dailyStats'[k].unique_users]_vars
  /\ [](\A f \in flushes : \A k \in DOMAIN f.statsW :
          LET op == StatsOpsOf(f.batch)[k]
              row == RowOf(dailyStats, k)
          IN op.addToSet \subseteq row.unique_users =>
               ApplyUpdate(row, op).unique_users = row.unique_users)

\* a bucket with both visitors that a retry updated again, after the cron
\* process created the placeholders and the session metrics were recalculated
C14_Witness ==
  /\ <<"s1", 1>> \in DOMAIN dailyStats
  /\ \E k \in DOMAIN dailyStats :
       /\ dailyStats[k].unique_users = {"A", "B"}
       /\ dailyStats[k].total_views >= 3
       /\ dailyStats[k].sessions_count >= 1

\* the jobs of bucket b whose latest upsert of the bucket the storage applied
StatsApplied(b) ==
  { j \in Enqueued :
      /\ BucketOf(j) = b
      /\ \/ jobState[j] = "completed"
         \/ \E f \in flushes :
              j \in Range(f.batch) /\ b \in DOMAIN f.statsW /\ f.statsW[b] = "ok" }

\* C15: a bucket with an applied upsert has its row, which carries the
\* increments of every applied upsert, whether the row was inserted by one
\* of them or by createDailyStats; while no write failed it counts exactly
\* the events and visitors of the applied upserts.
C15_SingleRow ==
  \A b \in Buckets :
    /\ StatsApplied(b) # {} => b \in DOMAIN dailyStats
    /\ RowOf(dailyStats, b).total_views >= Cardinality(StatsApplied(b))
    /\ { jobData[j].user_id : j \in StatsApplied(b) } \subseteq RowOf(dailyStats, b).unique_users
    /\ outages = 0 =>
         /\ RowOf(dailyStats, b).total_views = Cardinality(StatsApplied(b))
         /\ RowOf(dailyStats, b).unique_users = { jobData[j].user_id : j \in StatsApplied(b) }

\* two flushes in flight at once had their upserts of one bucket applied,
\* and the cron process created the placeholders
C15_Witness ==
  /\ outages = 0
  /\ <<"s1", 1>> \in DOMAIN dailyStats
  /\ \E f, g \in flushes, b \in Buckets :
       /\ f # g
       /\ b \in DOMAIN f.statsW /\ f.statsW[b] = "ok"
       /\ b \in DOMAIN g.statsW /\ g.statsW[b] = "ok"
       /\ dailyStats[b].total_views = 2

\* the request of the state is rate-limited, carries no known API key, or
\* fails validation
RateLimited == rl[IpOf(request)] >= LIMIT_PER_MINUTE
KeyKnown == request.apiKey \in DOMAIN SiteOfKey
PassesValidation == validateEvent(request.body, now).success

\* C17: an event is added to the queue only if the request passed the rate
\* limit, carried an API key that maps to a site and passed validation; a
\* request that is rate-limited is answered 429, one without an API key or
\* with an unknown one 401, one that fails validation 400, and none of them
\* changes the queue
C17_EnqueueOnlyIfAdmitted ==
  /\ [][ (jobState' # jobState \/ jobData' # jobData)
           => (/\ ~RateLimited
               /\ KeyKnown
               /\ PassesValidation
               /\ response'.status = 200) ]_vars
  /\ [][ (rl'[IpOf(request)] = rl[IpOf(request)] + 1)
           => (/\ RateLimited => response'.status = 429
               /\ (~RateLimited /\ request.apiKey = Absent) => response'.status = 401
               /\ (~RateLimited /\ request.db /\ ~KeyKnown) => response'.status = 401
               /\ (~RateLimited /\ request.db /\ KeyKnown /\ ~PassesValidation)
                    => response'.status = 400
               /\ response'.status \in {429, 401, 400} => UNCHANGED queueVars) ]_vars

\* a valid request of a known site was accepted once and then rate-limited,
\* and the second one added nothing to the queue
C17_Witness ==
  /\ response.status = 429
  /\ KeyKnown /\ request.db /\ PassesValidation
  /\ jobState[1] = "waiting"
  /\ \A j \in Jobs : j > 1 => jobState[j] = "none"

\* the request of the state with v as the site_id of its payload
WithSiteId(v) == [request EXCEPT !.body = [request.body EXCEPT !.site_id = v]]

\* the values of the payload's site_id
SiteIdValues == { b.site_id : b \in Bodies }

\* C18: the site_id of every enqueued event is the site_id of the site that
\* the API key authenticates, and the payload's site_id has no influence:
\* a request that differs from the handled one only in the payload's site_id
\* has the same status and, if accepted, enqueues the same event
C18_SiteIdIgnored ==
  (response.status # 0 /\ request.body.object) =>
    /\ \A j \in Enqueued : jobData[j].site_id = SiteOfKey[request.apiKey]
    /\ \A v \in SiteIdValues, count \in 0..LIMIT_PER_MINUTE :
         LET a == Handle(request, count, now)
             b == Handle(WithSiteId(v), count, now)
         IN /\ a.status = b.status
            /\ a.enqueue = b.enqueue
            /\ a.event = b.event

\* the largest length of the text of field f
LimitOf(f) ==
  CASE f = "event_type" -> MaxEventType
    [] f = "path" -> MaxPath
    [] f = "user_id" -> MaxUserId

\* the fields among event_type, path, subject id and timestamp of body that
\* violate their rule: missing, empty, over-length, unparseable timestamp
ViolatedFields(body) ==
  { f \in {"event_type", "path", "user_id"} :
      body[f] = Absent \/ body[f] = "" \/ StrLen(body[f]) > LimitOf(f) }
  \cup
  { f \in {"timestamp"} : body.timestamp # Absent /\ ~IsDatetime(body.timestamp) }

\* C19: validateEvent returns a normalized event or fails with an error that
\* lists every violated field: the fields reported are the fields among
\* event_type, path, subject id and timestamp that violate their rule; an
\* absent timestamp is no violation and is replaced by the ingestion instant
C19_EveryViolatedField ==
  /\ response.status = 400 => response.fields = ViolatedFields(request.body)
  /\ response.status = 200 => ViolatedFields(request.body) = {}
  /\ (response.status \in {200, 400} /\ ViolatedFields(request.body) = {})
       => response.status = 200
  /\ \A j \in Enqueued :
       IF request.body.timestamp = Absent
       THEN jobData[j].timestamp \in HomeView.timestamp..now
       ELSE jobData[j].timestamp = DateOf(request.body.timestamp)

\* a step of POST that records the event in the queue and answers 200
Accepted ==
  /\ POST
  /\ response'.status = 200
  /\ \E j \in 1..MaxJobs : jobState[j] = "none" /\ jobState'[j] = "waiting"

\* the request of the state is one that the ingestion API admits, and the
\* queue of the model has room for its event
Admissible ==
  /\ ~RateLimited /\ KeyKnown /\ request.db /\ PassesValidation
  /\ \E j \in 1..MaxJobs : jobState[j] = "none"

\* C20: enqueue is enabled regardless of the worker's state: an admissible
\* request can complete, its event recorded in the queue and 200 returned,
\* whatever the buffer holds, whether flushes are in progress or failing,
\* whether the worker takes steps, and whether the storage answers the worker
C20_EnqueueAlwaysEnabled == Admissible => ENABLED Accepted

\* the second event was accepted after a flush had started that is still in
\* progress, and the storage is unavailable to the worker
C20_Witness ==
  /\ ~storageUp
  /\ response.status = 200
  /\ jobState[2] = "waiting"
  /\ \E f \in flushes : f.at < jobData[2].timestamp

\* the sessions that site started on the UTC day date
SessionsOn(site, date) ==
  { r \in sessions : r.site_id = site /\ r.started_at \in (24 * date)..(24 * date + 23) }

\* x is the number a / n rounded to an integer
Rounded(x, a, n) ==
  LET diff == IF n * x >= a THEN n * x - a ELSE a - n * x IN 2 * diff <= n

\* C21: calculateSessionMetrics of a site and date gives the number of the
\* site's sessions that started on the date, the mean duration in seconds
\* rounded to an integer, the mean page_count rounded to one decimal and the
\* percentage, of one decimal, of the sessions of one page; without sessions
\* all four are 0, and with one session of one page bounce_rate is 100.0
C21_SessionMetrics ==
  \A site \in {"s1", "s2"}, date \in 0..1 :
    LET S == SessionsOn(site, date)
        n == Cardinality(S)
        m == calculateSessionMetrics(sessions, site, date)
    IN /\ m.sessions_count = n
       /\ n = 0 => (/\ m.avg_session_duration = 0
                    /\ m.avg_pages_per_session = 0
                    /\ m.bounce_rate = 0)
       /\ n > 0 =>
            /\ Rounded(m.avg_session_duration,
                       SumOver([r \in S |-> 3600 * (r.last_activity - r.started_at)], S), n)
            /\ Rounded(m.avg_pages_per_session, SumOver([r \in S |-> 10 * r.page_count], S), n)
            /\ Rounded(m.bounce_rate,
                       1000 * Cardinality({ r \in S : r.page_count = 1 }), n)
       /\ (n = 1 /\ \A r \in S : r.page_count = 1) => m.bounce_rate = 1000
       /\ (processedDates = {} /\ dates = {} /\ outages = 0
           /\ <<site, date>> \in DOMAIN dailyStats)
            => /\ dailyStats[<<site, date>>].sessions_count = m.sessions_count
               /\ dailyStats[<<site, date>>].avg_session_duration = m.avg_session_duration
               /\ dailyStats[<<site, date>>].avg_pages_per_session = m.avg_pages_per_session
               /\ dailyStats[<<site, date>>].bounce_rate = m.bounce_rate

\* a recalculation wrote the metrics of a day of three sessions, two of them
\* bounces, that lasted 20 minutes on average, and of a day of one bounce
C21_Witness ==
  /\ processedDates = {} /\ dates = {}
  /\ dailyStats[<<"s1", 0>>].sessions_count = 3
  /\ dailyStats[<<"s1", 0>>].avg_session_duration = 1200
  /\ dailyStats[<<"s1", 0>>].avg_pages_per_session = 13
  /\ dailyStats[<<"s1", 0>>].bounce_rate = 667
  /\ dailyStats[<<"s1", 1>>].sessions_count = 1
  /\ dailyStats[<<"s1", 1>>].bounce_rate = 1000

\* the four derived fields of a row
Derived(doc) ==
  [sessions_count |-> doc.sessions_count,
   avg_session_duration |-> doc.avg_session_duration,
   avg_pages_per_session |-> doc.avg_pages_per_session,
   bounce_rate |-> doc.bounce_rate]

\* C22: in a run of the recalculation a failure at one dirty key does not
\* keep the other keys of the run from being recomputed and written: the
\* step of a key takes this key only from the keys the run has left, and a
\* step that the storage serves writes the metrics of its key whatever
\* happened to the keys before; the failed key does not return to the dirty
\* set, and nothing recomputes it while no flush marks it again
C22_FailureIsolated ==
  /\ [][ \A k \in dates : (dates' # dates /\ k \notin dates')
           => (/\ dates' = dates \ {k}
               /\ processedDates' = processedDates
               /\ (storageUp /\ k \in DOMAIN dailyStats)
                    => Derived(dailyStats'[k])
                         = calculateSessionMetrics(sessions, k[1], k[2])) ]_vars
  /\ [][ (dates = {} /\ processedDates = {})
           => (dailyStats' = dailyStats /\ dates' = {} /\ processedDates' = {}) ]_vars

\* a run ended in which the storage failed at the key of the second day,
\* whose session stays uncounted, and served the key of the first day
C22_Witness ==
  /\ dates = {} /\ processedDates = {}
  /\ SessionsOn("s1", 1) # {} /\ dailyStats[<<"s1", 1>>].sessions_count = 0
  /\ SessionsOn("s1", 0) # {}
  /\ dailyStats[<<"s1", 0>>].sessions_count = Cardinality(SessionsOn("s1", 0))

\* events stopped arriving, no storage operation failed, every flush
\* completed and the recalculation runs took every dirty key
Settled ==
  /\ outages = 0
  /\ Enqueued # {}
  /\ \A j \in Enqueued : jobState[j] = "completed"
  /\ flushes = {} /\ buffer = << >>
  /\ processedDates = {} /\ dates = {}

\* C23: the derived session metrics are eventually consistent: when events
\* stopped, no storage operation failed, the last flush completed and the
\* recalculation took every dirty key, each bucket that a flush touched has
\* the four derived fields computed from the final Session rows, also when
\* a run interleaved with a flush that had marked its keys and not finished
\* its writes
C23_MetricsConsistent ==
  Settled =>
    \A b \in Buckets :
      StatsApplied(b) # {} =>
        /\ b \in DOMAIN dailyStats
        /\ Derived(dailyStats[b]) = calculateSessionMetrics(sessions, b[1], b[2])

\* the handler of sig started the recalculation, the closing of the worker
\* or the closing of the queue
AtOrAfter(sig, step) ==
  CASE step = "recalculateSessionMetrics" ->
         shutdown.pc[sig] \in {"recalculateSessionMetrics", "worker.close", "closeQueue"}
    [] step = "worker.close" -> shutdown.pc[sig] \in {"worker.close", "closeQueue"}
    [] step = "closeQueue" -> shutdown.pc[sig] = "closeQueue"

\* C24: on graceful shutdown the buffer is flushed and the flush has
\* completed, then the recalculation runs once more, then the worker is
\* closed, then the queue connection is closed, and then the process exits:
\* no step starts before the one before it has finished
C24_ShutdownOrder ==
  /\ \A sig, t \in Signals :
       /\ AtOrAfter(sig, "recalculateSessionMetrics") => ~FlushPending(t)
       /\ AtOrAfter(sig, "worker.close") => ~RecalculationPending(t)
       /\ AtOrAfter(sig, "closeQueue") => shutdown.worker = "closed"
  /\ shutdown.worker # "running" =>
       \A t \in Signals : ~FlushPending(t) /\ ~RecalculationPending(t)
  /\ shutdown.queue = "closed" => shutdown.worker = "closed"
  /\ shutdown.exited => shutdown.queue = "closed"

\* C25: a flush whose storage writes get no answer within a bounded time is
\* treated as failed: every job that joined the buffer is eventually
\* acknowledged or rejected, and so no longer active, also when the storage
\* never answers again
C25_FlushSettles ==
  \A j \in 1..MaxJobs : (jobState[j] = "active") ~> (jobState[j] # "active")

\* the storage is unavailable and a job of a flush that got no answer was
\* rejected and waits for its retry
C25_Witness ==
  /\ ~storageUp
  /\ \E j \in Jobs : jobState[j] = "delayed" /\ attemptsMade[j] >= 1

\* the counters and the visitor set of a row
Counters(doc) ==
  [total_views |-> doc.total_views, unique_users |-> doc.unique_users,
   path_counts |-> doc.path_counts, device_counts |-> doc.device_counts,
   browser_counts |-> doc.browser_counts, referrer_counts |-> doc.referrer_counts]

BulkEvents ==
  { HomeView,
    AboutView,
    [site_id |-> "s1", event_type |-> "pageview", timestamp |-> 30, user_id |-> "A",
     path |-> PHome, device_type |-> "mobile", browser |-> Absent, referrer |-> ""],
    [site_id |-> "s2", event_type |-> "pageview", timestamp |-> 10, user_id |-> "A",
     path |-> PAbout, device_type |-> "desktop", browser |-> Absent, referrer |-> "google"] }

\* the worker fed one batch's worth of events of several sites and days
\* while the storage is available
BulkNext ==
  \/ \E j \in 1..BATCH_SIZE, e \in BulkEvents : Produce(j, e)
  \/ \E j \in 1..BATCH_SIZE : processEvent(j)
  \/ TimerFire
  \/ \E f \in flushes : EventInsertDone(f)
  \/ \E f \in flushes : SessionsDone(f)
  \/ \E f \in flushes : \E k \in DOMAIN f.statsW : StatsOpDone(f, k)

BulkSpec == Init /\ [][BulkNext]_vars

\* the positions of the events of bucket k in the statsEvents evs
InBucket(evs, k) == { i \in DOMAIN evs : evs[i].site_id = k[1] /\ evs[i].date = k[2] }

\* the sum of the increments of one counts map
Total(counts) == SumOver(counts, DOMAIN counts)

\* the event has a value for the dimension
Carries(v) == v # Absent /\ v # ""

\* C27: the stats bulkWrite of a flush holds exactly one upsert for each
\* (site_id, date) among the events of the batch, filtered on that pair, and
\* the upsert of a bucket increments total_views by the number of the
\* batch's events of the bucket, adds the set of their visitor ids and
\* carries for device, browser and referrer increments that sum to the
\* number of these events that have a value for the dimension
C27_OneUpsertPerBucket ==
  \A f \in flushes :
    LET evs == StatsEventsOf(f.batch)
        ops == StatsOpsOf(f.batch)
    IN /\ DOMAIN f.statsW = { <<evs[i].site_id, evs[i].date>> : i \in DOMAIN evs }
       /\ DOMAIN ops = DOMAIN f.statsW
       /\ \A k \in DOMAIN ops :
            LET In == InBucket(evs, k) IN
            /\ ops[k].site_id = k[1] /\ ops[k].date = k[2]
            /\ ops[k].total_views = Cardinality(In)
            /\ ops[k].addToSet = { evs[i].visitor_id : i \in In }
            /\ Total(ops[k].pathCounts) = Cardinality(In)
            /\ Total(ops[k].deviceCounts)
                 = Cardinality({ i \in In : Carries(evs[i].device_type) })
            /\ Total(ops[k].browserCounts)
                 = Cardinality({ i \in In : Carries(evs[i].browser) })
            /\ Total(ops[k].referrerCounts)
                 = Cardinality({ i \in In : Carries(evs[i].referrer) })

\* a flush of a full batch whose events lie in three buckets, one of them
\* without a referrer, has three writes outstanding
C27_Witness ==
  \E f \in flushes :
    /\ Len(f.batch) = BATCH_SIZE
    /\ Cardinality(DOMAIN f.statsW) = 3
    /\ \A k \in DOMAIN f.statsW : f.statsW[k] = "p"
    /\ \E j \in Range(f.batch) : jobData[j].referrer = ""
\* the counts maps of a row or of an upsert lie within its views n: no map
\* has an entry for a missing value, and the values of each map sum to at
\* most n
WithinViews(device, browser, referrer, n) ==
  /\ \A counts \in {device, browser, referrer} :
       /\ Absent \notin DOMAIN counts
       /\ Total(counts) <= n

\* C28: an event without device_type, browser or referrer adds to no entry
\* of the counts map of that dimension, in no upsert of a flush; and in
\* every stored bucket the values of device_counts, of browser_counts and of
\* referrer_counts each sum to at most total_views
C28_DimensionsWithinViews ==
  /\ \A f \in flushes : \A k \in DOMAIN f.statsW :
       LET op == StatsOpsOf(f.batch)[k]
           In == InBucket(StatsEventsOf(f.batch), k)
       IN /\ WithinViews(op.deviceCounts, op.browserCounts, op.referrerCounts,
                         op.total_views)
          /\ (\A i \in In : StatsEventsOf(f.batch)[i].device_type = Absent)
               => op.deviceCounts = << >>
          /\ (\A i \in In : StatsEventsOf(f.batch)[i].browser = Absent)
               => op.browserCounts = << >>
          /\ (\A i \in In : StatsEventsOf(f.batch)[i].referrer = Absent)
               => op.referrerCounts = << >>
  /\ \A b \in DOMAIN dailyStats :
       WithinViews(dailyStats[b].device_counts, dailyStats[b].browser_counts,
                   dailyStats[b].referrer_counts, dailyStats[b].total_views)

\* a stored bucket counts two events, one of them without device_type and
\* one without referrer: each of the two maps sums to one
C28_Witness ==
  \E b \in DOMAIN dailyStats :
    /\ dailyStats[b].total_views = 2
    /\ Total(dailyStats[b].device_counts) = 1
    /\ Total(dailyStats[b].referrer_counts) = 1
    /\ Total(dailyStats[b].browser_counts) = 2

(* ------------------- clients of the rate limiter ----------------------- *)
\* the requests of clients that reach the handler directly or through
\* proxies: the forwarding headers are missing or name any address
ClientRequests ==
  [addr : IPs, forwarded : {Absent} \cup IPs, realIp : {Absent} \cup IPs, host : {Host},
   apiKey : {Absent, "k1"}, db : {TRUE}, body : {ValidBody}]

\* a client sends request req
Arrive(req) ==
  /\ request' = req
  /\ response' = NoResponse
  /\ UNCHANGED <<queueVars, bufferVars, flushes, dailyStats, processedDates,
                 envVars, storeVars, now, observed, sdk, rl, dates, shutdown>>

\* the ingestion API serving the requests of several clients over minutes
LimiterNext ==
  \/ \E req \in ClientRequests : Arrive(req)
  \/ POST
  \/ NextMinute

LimiterSpec == Init /\ [][LimiterNext]_vars

\* C29: every request is counted in the window of its client's address and
\* of no other address, and it is refused with 429 exactly when the
\* requests of that address in the minute already reached
\* RATE_LIMIT_PER_MINUTE; a new minute starts new windows
C29_LimitPerClientIp ==
  [][ (\E k \in RateKeys : rl'[k] > rl[k])
        => /\ rl'[request.addr] = rl[request.addr] + 1
           /\ \A a \in IPs \ {request.addr} : rl'[a] = rl[a]
           /\ (response'.status = 429) <=> (rl[request.addr] >= LIMIT_PER_MINUTE) ]_vars

(* ------------------- app/api/stats/route.ts: GET ----------------------- *)
\* slice(0, 10): the number of top paths
TopN == 10

\* the date texts of the queries and the day each names
DayZero == "1970-01-01"
DayOne == "1970-01-02"
DayOf(str) == IF str = DayOne THEN 1 ELSE 0

\* the texts that match /^\d{4}-\d{2}-\d{2}$/
IsDay(str) == str \in {DayZero, DayOne}

\* the queries: searchParams.get gives null (Absent) for a missing parameter
Queries == [site_id : {Absent, "s1", "s2"}, date : {Absent, DayZero, DayOne, "yesterday"}]

\* StatsQuerySchema: site_id a string of at least one character, date a
\* string in YYYY-MM-DD format or undefined (null is not accepted)
StatsQueryIssues(q) ==
  (IF q.site_id = Absent \/ q.site_id = "" THEN {"site_id"} ELSE {})
  \cup (IF q.date = Absent \/ ~IsDay(q.date) THEN {"date"} ELSE {})

\* Object.entries(stats.path_counts) as {path, views}: the keys of the
\* stored object are the first segments of the counted paths, and the value
\* of a key is the count of the path or, for a path with further segments,
\* an embedded document
PathEntries(pc) ==
  { IF <<seg>> \in DOMAIN pc
    THEN [path |-> seg, number |-> TRUE, views |-> pc[<<seg>>]]
    ELSE [path |-> seg, number |-> FALSE, views |-> 0]
    : seg \in { p[1] : p \in DOMAIN pc } }

RECURSIVE Orders(_)
\* every order of the elements of S
Orders(S) ==
  IF S = {} THEN { << >> }
  ELSE UNION { { <<e>> \o t : t \in Orders(S \ {e}) } : e \in S }

RECURSIVE Descending(_)
\* the orders of S that are non-increasing in views
Descending(S) ==
  IF S = {} THEN { << >> }
  ELSE UNION { { <<e>> \o t : t \in Descending(S \ {e}) }
               : e \in { x \in S : \A y \in S : x.views >= y.views } }

\* sort((a, b) => b.views - a.views): entries with equal views keep the
\* order of the stored object, which is any order here; b.views - a.views
\* is NaN when one of them is an embedded document, the comparator is then
\* not consistent and the order is implementation-defined
SortByViews(S) ==
  IF \A e \in S : e.number THEN Descending(S) ELSE Orders(S)

\* slice(0, n)
SliceTop(seq, n) == SubSeq(seq, 1, IF Len(seq) < n THEN Len(seq) ELSE n)

NoData == [site_id |-> "", date |-> 0, total_views |-> 0, unique_users_count |-> 0,
           top_paths |-> << >>]

\* the responses GET can give to query q when the collection is coll and
\* the storage answers (up) or not
StatsResponses(coll, q, up) ==
  IF StatsQueryIssues(q) # {} THEN { [status |-> 400, data |-> NoData] }
  ELSE IF ~up THEN { [status |-> 500, data |-> NoData] }
  ELSE LET key == <<q.site_id, DayOf(q.date)>> IN
       IF key \notin DOMAIN coll
       THEN { [status |-> 200,
               data |-> [site_id |-> q.site_id, date |-> DayOf(q.date), total_views |-> 0,
                         unique_users_count |-> 0, top_paths |-> << >>]] }
       ELSE { [status |-> 200,
               data |-> [site_id |-> key[1], date |-> key[2],
                         total_views |-> coll[key].total_views,
                         unique_users_count |-> Cardinality(coll[key].unique_users),
                         top_paths |-> SliceTop(order, TopN)]]
              : order \in SortByViews(PathEntries(coll[key].path_counts)) }

\* GET /api/stats handles query q
GET(q) ==
  /\ request' = q
  /\ response' \in StatsResponses(dailyStats, q, storageUp)
  /\ UNCHANGED <<queueVars, bufferVars, flushes, dailyStats, processedDates,
                 envVars, storeVars, now, observed, sdk, rl, dates, shutdown>>

\* eleven paths without a dot
ManyPaths ==
  <<"/p01", "/p02", "/p03", "/p04", "/p05", "/p06", "/p07", "/p08", "/p09", "/p10", "/p11">>

\* path counts that flushes can have stored: counts of some of the paths
\* /home, /about and /home.html (never /home with /home.html, whose
\* updates conflict), or of the paths of ManyPaths
StoredPathCounts ==
  UNION { [D -> {1, 2}] : D \in { D \in SUBSET {PHome, PAbout, PHomeHtml} :
                                   ~(PHome \in D /\ PHomeHtml \in D) } }
  \cup { [p \in { <<ManyPaths[i]>> : i \in DOMAIN ManyPaths } |->
           CHOOSE i \in DOMAIN ManyPaths : ManyPaths[i] = p[1]] }

\* the rows of these path counts
StoredDocs ==
  { [EmptyDoc EXCEPT !.path_counts = pc,
                     !.total_views = SumOver(pc, DOMAIN pc),
                     !.unique_users = u]
    : pc \in StoredPathCounts, u \in {{"A"}, {"A", "B"}} }

\* the reporting API over a collection with at most one bucket of site s1
ReportInit ==
  /\ jobState = [j \in Jobs |-> "none"]
  /\ attemptsMade = [j \in Jobs |-> 0]
  /\ jobData = [j \in Jobs |-> CHOOSE e \in Events : TRUE]
  /\ delays = [j \in Jobs |-> << >>]
  /\ buffer = << >>
  /\ timerHandle = 0
  /\ timers = 0
  /\ flushes = {}
  /\ dailyStats \in { << >> } \cup { [k \in {<<"s1", 0>>} |-> doc] : doc \in StoredDocs }
  /\ processedDates = {}
  /\ storageUp = TRUE
  /\ outages = 0
  /\ run = [n |-> 0, sizeFlushes |-> 0]
  /\ eventsColl = [j \in Jobs |-> 0]
  /\ sessions = {}
  /\ now = HomeView.timestamp
  /\ observed = {}
  /\ sdk = SdkInit
  /\ dates = {}
  /\ shutdown = NoShutdown
  /\ request = [site_id |-> "s1", date |-> DayZero]
  /\ response = [status |-> 0, data |-> NoData]
  /\ rl = [k \in RateKeys |-> 0]

ReportNext ==
  \/ \E q \in Queries : GET(q)
  \/ StorageDown
  \/ StorageUp

ReportSpec == ReportInit /\ [][ReportNext]_vars

\* the list is non-increasing in views, every entry being a count
NonIncreasing(top) ==
  /\ \A i \in DOMAIN top : top[i].number
  /\ \A i, j \in DOMAIN top : i < j => top[i].views >= top[j].views

\* C30: a query for a site and date that the storage answers succeeds: with
\* no row of the bucket it returns total_views 0, unique user count 0 and no
\* top paths; with a row it returns the row's total_views, the size of its
\* unique_users and at most 10 top paths in non-increasing order of views
C30_ReportOrZero ==
  [][ (response' # response /\ StatsQueryIssues(request') = {} /\ storageUp)
        => LET key == <<request'.site_id, DayOf(request'.date)>>
               d == response'.data
           IN /\ response'.status = 200
              /\ key \notin DOMAIN dailyStats
                   => /\ d.total_views = 0
                      /\ d.unique_users_count = 0
                      /\ d.top_paths = << >>
              /\ key \in DOMAIN dailyStats
                   => /\ d.total_views = dailyStats[key].total_views
                      /\ d.unique_users_count = Cardinality(dailyStats[key].unique_users)
                      /\ Len(d.top_paths) <= TopN
                      /\ NonIncreasing(d.top_paths) ]_vars

(* ------------------- the worker with its default settings -------------- *)
\* parseInt(process.env.BATCH_SIZE || '50')
DEFAULT_BATCH_SIZE == 50
\* parseInt(process.env.QUEUE_CONCURRENCY || '10')
DEFAULT_CONCURRENCY == 10

\* the default settings counted in groups of DEFAULT_CONCURRENCY jobs: a
\* job of the run stands for as many jobs as the worker takes at a time
DefaultSettings ==
  [size |-> DEFAULT_BATCH_SIZE \div DEFAULT_CONCURRENCY,
   concurrency |-> DEFAULT_CONCURRENCY \div DEFAULT_CONCURRENCY]

\* the worker started without BATCH_SIZE and QUEUE_CONCURRENCY in its
\* environment, fed more events than a batch holds, the storage available
DefaultNext ==
  \/ \E j \in Jobs : Produce(j, HomeView)
  \/ \E j \in Jobs : processEventWith(j, DefaultSettings.size, DefaultSettings.concurrency)
  \/ TimerFire
  \/ \E f \in flushes : EventInsertDone(f)
  \/ \E f \in flushes : SessionsDone(f)
  \/ \E f \in flushes : \E k \in DOMAIN f.statsW : StatsOpDone(f, k)

\* events keep arriving, the worker takes the jobs it has room for, timers
\* expire and the storage answers
DefaultSpec == Init /\ [][DefaultNext]_vars /\ WF_vars(DefaultNext)

\* a flush that the size threshold started, of a full batch
SizeFlush ==
  \E f \in flushes : f.trigger = "size" /\ Len(f.batch) = DefaultSettings.size

\* C31: with the default settings the worker comes to a state in which the
\* buffer reached the size threshold and a size-triggered flush of a full
\* batch started
C31_DefaultBatchReached == <>SizeFlush

(* ------------------- public/analytics.js: queue and flush -------------- *)
\* the variables of the server side
serverVars ==
  <<queueVars, bufferVars, flushes, dailyStats, processedDates, envVars, storeVars,
    now, observed, ingestVars, dates, shutdown>>

\* the ids of the events of a sequence
IdsOf(events) == { events[i].id : i \in DOMAIN events }

\* saveQueue(): the stored queue becomes a copy of eventQueue (the item is
\* removed when eventQueue is empty)
saveQueue(s) == [s EXCEPT !.stored = s.eventQueue]

\* a filter that keeps every event
Retriable_Always(e) == TRUE

\* e._retries <= config.maxRetries
Retriable(e) == e.retries <= MAX_RETRIES

\* e._retries = (e._retries || 0) + 1 for the events of a batch
Bump(batch) == [i \in DOMAIN batch |-> [batch[i] EXCEPT !.retries = @ + 1]]

\* flushTimer = setTimeout(flushQueue, config.flushInterval): a handle that
\* flushTimer held is no longer reachable, its timeout stays pending
SetFlushTimer(s) ==
  [s EXCEPT !.flushTimer = TRUE, !.timeouts = IF s.flushTimer THEN @ + 1 ELSE @]

\* flushQueue after await sendEvents(eventsToSend) gave success: saveQueue
\* on success; else the events whose incremented _retries is within
\* maxRetries are put back in front, saved, and a retry is scheduled, the
\* others are dropped; a flush is scheduled while the queue is not empty
AfterSend(s, batch, success) ==
  LET back == SelectSeq(Bump(batch), Retriable)
      s1 == IF success THEN saveQueue(s)
            ELSE IF back # << >>
            THEN [saveQueue([s EXCEPT !.eventQueue = back \o @]) EXCEPT !.timeouts = @ + 1]
            ELSE s
  IN IF s1.eventQueue # << >> THEN SetFlushTimer(s1) ELSE s1

\* flushQueue() up to its await: the timer is cleared, an empty queue
\* returns, else the first batchSize events are spliced off and passed to
\* sendEvents, which starts a fetch when isOnline and else answers false at
\* once
flushQueue(s) ==
  LET s0 == [s EXCEPT !.flushTimer = FALSE]
      q == s0.eventQueue
      n == IF Len(q) < SDK_BATCH_SIZE THEN Len(q) ELSE SDK_BATCH_SIZE
      batch == SubSeq(q, 1, n)
      s1 == [s0 EXCEPT !.eventQueue = SubSeq(q, n + 1, Len(q))]
  IN IF q = << >> THEN s0
     ELSE IF ~s1.isOnline THEN AfterSend(s1, batch, FALSE)
     ELSE [s1 EXCEPT !.sending = Append(@, batch),
                     !.fetches = [i \in DOMAIN @ |->
                                    IF i \in IdsOf(batch) THEN @[i] + 1 ELSE @[i]]]

\* queueEvent(eventData): the event is pushed and saved; the queue is
\* flushed when it holds batchSize events, else a flush is scheduled
\* unless one is
queueEvent ==
  /\ sdk.tracked < MaxTracked
  /\ LET e == [id |-> sdk.tracked + 1, retries |-> 0]
         s1 == saveQueue([sdk EXCEPT
                 !.eventQueue = Append(@, e),
                 !.tracked = @ + 1,
                 !.offlineTracked = IF sdk.isOnline THEN @ ELSE @ \cup {e.id}])
     IN sdk' = IF Len(s1.eventQueue) >= SDK_BATCH_SIZE THEN flushQueue(s1)
               ELSE IF ~s1.flushTimer THEN [s1 EXCEPT !.flushTimer = TRUE]
               ELSE s1
  /\ UNCHANGED serverVars

\* the timeout whose handle flushTimer holds expires
FlushTimerFires ==
  /\ sdk.flushTimer
  /\ sdk' = flushQueue(sdk)
  /\ UNCHANGED serverVars

\* another pending timeout expires: a retry, or a flush whose handle was
\* overwritten
TimeoutFires ==
  /\ sdk.timeouts > 0
  /\ sdk' = flushQueue([sdk EXCEPT !.timeouts = @ - 1])
  /\ UNCHANGED serverVars

\* the page calls analytics.flush(), or becomes hidden
ManualFlush ==
  /\ sdk.eventQueue # << >>
  /\ sdk' = flushQueue(sdk)
  /\ UNCHANGED serverVars

\* the fetch of the i-th batch in flight settles: response.ok, or an error
\* status or a network error
SendSettles(i, success) ==
  /\ i \in DOMAIN sdk.sending
  /\ sdk' = AfterSend(
       [sdk EXCEPT !.sending = SubSeq(@, 1, i - 1) \o SubSeq(@, i + 1, Len(@))],
       sdk.sending[i], success)
  /\ UNCHANGED serverVars

\* the offline event
GoOffline ==
  /\ sdk.isOnline
  /\ sdk' = [sdk EXCEPT !.isOnline = FALSE]
  /\ UNCHANGED serverVars

\* the online event: isOnline = true and flushQueue()
GoOnline ==
  /\ ~sdk.isOnline
  /\ sdk' = flushQueue([sdk EXCEPT !.isOnline = TRUE, !.offlineTracked = {}])
  /\ UNCHANGED serverVars

SdkNext ==
  \/ queueEvent
  \/ FlushTimerFires
  \/ TimeoutFires
  \/ ManualFlush
  \/ \E i \in 1..MaxTracked, success \in BOOLEAN : SendSettles(i, success)
  \/ GoOffline
  \/ GoOnline

SdkSpec == Init /\ [][SdkNext]_vars

\* the events of the batches in flight, one after the other
InFlight == [i \in DOMAIN sdk.sending |-> IdsOf(sdk.sending[i])]

C33_OfflineEventsKept ==
  ~sdk.isOnline =>
    /\ sdk.offlineTracked \subseteq IdsOf(sdk.eventQueue)
    /\ sdk.offlineTracked \subseteq IdsOf(sdk.stored)

(* ------------------- path_counts keys of arbitrary paths --------------- *)
\* C34: whatever the paths of a batch, with '.' or without, every entry of
\* path_counts lies directly under path_counts, keyed by a full path
\* (entries are never nested under a part of a path), and no pending upsert
\* is invalid: its increments do not collide with each other or with the
\* entries of the stored row
C34_OneEntryPerPath ==
  /\ \A b \in DOMAIN dailyStats :
       \A p \in DOMAIN dailyStats[b].path_counts : Len(p) = 1
  /\ \A f \in flushes : \A k \in DOMAIN f.statsW :
       f.statsW[k] = "p" => ~UpsertFails(dailyStats, k, StatsOpsOf(f.batch)[k])

(* ------------------- the idle timer of a waiting buffer ---------------- *)
\* the worker fed one event more than a batch holds while the storage stays
\* available
IdleNext ==
  \/ \E j \in 1..(BATCH_SIZE + 1) : Produce(j, HomeView)
  \/ WorkerStep
  \/ Shutdown

\* a Timeout that is armed expires: the event loop runs the callback of
\* every expired timer
IdleSpec == Init /\ [][IdleNext]_vars /\ WF_vars(TimerFire)

\* C35: between the handlers (after processEvent returned and after
\* flushBuffer reached its first await) a non-empty buffer has its idle
\* Timeout pending, timerHandle holding it, and fewer than BATCH_SIZE
\* events; hence every buffered event leaves the buffer
C35_BufferHasTimer ==
  /\ [](buffer # << >> =>
         /\ timerHandle # 0
         /\ timers = 1
         /\ Len(buffer) < BATCH_SIZE)
  /\ \A j \in Jobs : (j \in Range(buffer)) ~> (j \notin Range(buffer))

\* an event waits in the buffer with the Timeout pending while an earlier
\* batch is still being written
C35_Witness ==
  /\ Len(buffer) = BATCH_SIZE - 1
  /\ timerHandle # 0
  /\ \E f \in flushes : f.trigger = "timer" /\ PendingWrites(f) > 0

(* ------------------- jobs held by the worker --------------------------- *)
\* the jobs whose processEvent promise is pending: those in the buffer and
\* those in the batch of a flush that has not settled them
Held == Range(buffer) \cup UNION { Range(f.batch) : f \in flushes }

\* C36: the jobs that the worker holds, buffered or in an unfinished flush,
\* are never more than the queue concurrency, and they are the active jobs
C36_HeldWithinConcurrency ==
  /\ Cardinality(Held) <= QUEUE_CONCURRENCY
  /\ Len(buffer) <= QUEUE_CONCURRENCY
  /\ Held = ActiveJobs

\* the worker holds as many jobs as its concurrency allows, some buffered
\* and some in a flush, while another job waits in the queue
C36_Witness ==
  /\ Cardinality(Held) = QUEUE_CONCURRENCY
  /\ buffer # << >>
  /\ flushes # {}
  /\ \E j \in Jobs : jobState[j] = "waiting"

(* ------------------- dirty keys of arbitrary site ids ------------------ *)
\* a page view of the site NestedSite on day 1
NestedView == [HomeView EXCEPT !.site_id = NestedSite, !.timestamp = 24]

\* the worker fed events of the site s1 and of the site NestedSite, and
\* the recalculation runs
KeyNext ==
  \/ \E j \in 1..MaxJobs, e \in {HomeView, NestedView} : Produce(j, e)
  \/ \E j \in 1..MaxJobs : processEvent(j)
  \/ TimerFire
  \/ \E f \in flushes : EventInsertDone(f)
  \/ \E f \in flushes : SessionsDone(f)
  \/ \E f \in flushes : \E k \in DOMAIN f.statsW : StatsOpDone(f, k)
  \/ recalculateSessionMetrics
  \/ \E k \in dates : RecalculateKey(k)

KeySpec == SessionInit /\ [][KeyNext]_vars

\* C37: every key that awaits recalculation is the dirty key of an event
\* that was flushed and decodes to that event's site id and date, whatever
\* the site id; so a recalculation reads and writes the marked buckets
C37_DirtyKeyRoundTrip ==
  \A k \in processedDates \cup dates :
     \E j \in Jobs :
        LET ev == StatsEvent(jobData[j]) IN
        /\ jobState[j] # "none"
        /\ k = dateKey(ev.site_id, ev.date)
        /\ SplitKey(k) = <<ev.site_id, ev.date>>

(* ------------------- the state at process exit ------------------------- *)
\* C38: when the process exits after a graceful shutdown, no job is in the
\* buffer or in an unfinished flush, and no bucket that a flush marked is
\* left without its recalculation: the dirty set is empty and no run has
\* keys left to do
C38_CleanExit ==
  shutdown.exited =>
    /\ buffer = << >>
    /\ flushes = {}
    /\ processedDates = {}
    /\ dates = {}

(* ------------------- overlapping recalculation runs -------------------- *)
\* a page view of the site s1 on day 1
LaterView == [HomeView EXCEPT !.timestamp = 30]

\* the worker process fed events of day 0, day 1 and day 0: its flushes
\* mark keys while runs of the interval and of the shutdown handlers await
\* the storage
OverlapNext ==
  \/ \E j \in 1..(MaxJobs + 1) : Produce(j, IF j = MaxJobs THEN LaterView ELSE HomeView)
  \/ \E j \in 1..(MaxJobs + 1) : shutdown.worker = "running" /\ processEvent(j)
  \/ ~shutdown.exited /\ TimerFire
  \/ \E f \in flushes : ~shutdown.exited /\ EventInsertDone(f)
  \/ \E f \in flushes : ~shutdown.exited /\ SessionsDone(f)
  \/ \E f \in flushes : \E k \in DOMAIN f.statsW : ~shutdown.exited /\ StatsOpDone(f, k)
  \/ shutdown.interval /\ recalculateSessionMetrics
  \/ \E k \in dates : ~shutdown.exited /\ RecalculateKey(k)
  \/ \E sig \in Signals : gracefulShutdown(sig)
  \/ \E sig \in Signals : ShutdownRecalculate(sig)
  \/ \E sig \in Signals : ShutdownCloseWorker(sig)
  \/ WorkerClosed
  \/ \E sig \in Signals : ShutdownCloseQueue(sig)
  \/ \E sig \in Signals : ShutdownExit(sig)

OverlapSpec == Init /\ [][OverlapNext]_vars

\* C39: keys leave the dirty set only all together, at the start of a run
\* that takes every one of them and leaves the set empty, so no later run
\* takes the same mark; a step of a run in progress takes one of its keys
\* and leaves the dirty set as it is, and a key marked meanwhile is added
\* to the dirty set and stays there until the next run starts
C39_KeysTakenOnce ==
  /\ [][ ~(processedDates \subseteq processedDates') =>
           (processedDates' = {} /\ dates' = dates \cup processedDates) ]_vars
  /\ [][ dates' # dates =>
           \/ (dates' = dates \cup processedDates /\ processedDates' = {})
           \/ \E k \in dates : dates' = dates \ {k} /\ processedDates' = processedDates ]_vars
  /\ [][ (dates # {} /\ flushes' # flushes /\ Cardinality(flushes') > Cardinality(flushes)) =>
           (dates' = dates /\ processedDates \subseteq processedDates') ]_vars

\* the run of a shutdown handler has taken a key while another run still
\* has a key to do, and a flush has marked a key since
C39_Witness ==
  \E sig \in Signals :
    /\ shutdown.pc[sig] = "recalculateSessionMetrics"
    /\ shutdown.keys[sig] # {}
    /\ shutdown.keys[sig] \subseteq dates
    /\ dates \ shutdown.keys[sig] # {}
    /\ processedDates # {}

(* ------------------- worker/cron.ts: runCleanup step by step ----------- *)
\* EVENT_RETENTION_DAYS, by default
RetentionDays == 7

\* the time of the cron run: the event HomeView is older than the cutoff
CronNow == HomeView.timestamp + RetentionDays * 24 + 1

\* a page view dated the day of the cron run
TodayView == [HomeView EXCEPT !.timestamp = CronNow]

\* db.collection('events').deleteMany({timestamp: {$lt: cutoff}}) on the
\* documents inserted for each job
deleteMany(coll, cutoff) ==
  [j \in DOMAIN coll |-> IF jobData[j].timestamp < cutoff THEN 0 ELSE coll[j]]

\* runCleanup up to its deleteMany: the cutoff is daysToKeep days before now
CronSweep ==
  /\ eventsColl' = deleteMany(eventsColl, now - RetentionDays * 24)
  /\ UNCHANGED <<queueVars, bufferVars, flushes, dailyStats, processedDates, envVars,
                 sessions, otherVars>>

\* one await createDailyStats(s.site_id, key) of runCleanup's loop, key
\* being today's or tomorrow's
CronCreate(site, date) ==
  /\ date \in {formatDate(now), formatDate(now) + 1}
  /\ dailyStats' = createDailyStats(dailyStats, <<site, date>>)
  /\ UNCHANGED <<queueVars, bufferVars, flushes, processedDates, envVars, storeVars,
                 otherVars>>

\* the worker and the cron process at the time CronNow, the events and
\* sessions collections being recorded
CronInit ==
  /\ jobState = [j \in Jobs |-> "none"]
  /\ attemptsMade = [j \in Jobs |-> 0]
  /\ jobData = [j \in Jobs |-> CHOOSE e \in Events : TRUE]
  /\ delays = [j \in Jobs |-> << >>]
  /\ buffer = << >>
  /\ timerHandle = 0
  /\ timers = 0
  /\ flushes = {}
  /\ dailyStats = << >>
  /\ processedDates = {}
  /\ storageUp = TRUE
  /\ outages = 0
  /\ run = [n |-> 0, sizeFlushes |-> 0]
  /\ eventsColl = [j \in Jobs |-> 0]
  /\ sessions = {}
  /\ now = CronNow
  /\ observed = {"events", "sessions"}
  /\ sdk = SdkInit
  /\ dates = {}
  /\ shutdown = NoShutdown
  /\ IngestIdle

\* the worker processes an old event and events of today while the cron
\* process sweeps the events and creates the placeholders of its site
CronNext ==
  \/ \E j \in 1..(MaxJobs + 1) : Produce(j, IF j = 1 THEN HomeView ELSE TodayView)
  \/ \E j \in 1..(MaxJobs + 1) : processEvent(j)
  \/ TimerFire
  \/ \E f \in flushes : EventInsertDone(f)
  \/ \E f \in flushes : SessionsDone(f)
  \/ \E f \in flushes : \E k \in DOMAIN f.statsW : StatsOpDone(f, k)
  \/ CronSweep
  \/ \E site \in Sites, date \in {formatDate(CronNow), formatDate(CronNow) + 1} :
       CronCreate(site, date)

CronSpec == CronInit /\ [][CronNext]_vars

\* the row of bucket b if the events of its applied upserts had been
\* written by one upsert into an empty collection
ExpectedRow(b) ==
  LET In(j) == j \in StatsApplied(b)
      batch == SelectSeq([j \in Jobs |-> j], In)
  IN IF batch = << >> THEN EmptyDoc ELSE ApplyUpdate(EmptyDoc, StatsOpsOf(batch)[b])

====
